---------------------------- MODULE Spec2Model ----------------------------
(***************************************************************************)
(* Retro-Chat-95: the relay (MQTT) session controller of src/App.tsx.      *)
(*                                                                         *)
(* The React component is modelled as a state machine.  Every handler of   *)
(* the component is a function from a state record s to a state record;    *)
(* an action applies one handler (with everything it calls) and commits    *)
(* the result.  A handler created in one render keeps the values of the    *)
(* component's state that it closed over (screen, status, username): the   *)
(* record ctx carries them with code, key and isHosting from connectToMqtt *)
(* into every callback registered there and into every retry.              *)
(*                                                                         *)
(* Timers are untimed: a pending timer may fire at any later step.         *)
(* encryptMessage / decryptMessage are an ideal authenticated cipher: a    *)
(* payload opens under the password that made it and under no other.       *)
(***************************************************************************)
EXTENDS Integers, Sequences, FiniteSets, TLC

VARIABLES ui, ref, clients, timers, wire

vars == <<ui, ref, clients, timers, wire>>

---------------------------------------------------------------------------
(* Bounds of the model *)

MaxClients == 3      \* clients created by mqtt.connect in one run
MaxLog     == 2      \* entries of one message log
MaxInbox   == 1      \* frames in flight to one client
MaxTimers  == 2      \* timers pending at once
MaxHistory == 3      \* entries of a log with delivery statuses
MaxConns   == 3      \* data connections one peer object sees in one run
MaxIdLen   == 2      \* characters of a room id
KeyLen     == 2      \* characters of a generated key (12 in generateRandomKey)
MaxTyped   == 4      \* characters of a code typed by hand
MaxRooms   == 3      \* rooms joined by one component in one run
MaxNotes   == 3      \* entries of the log of the mesh variant

---------------------------------------------------------------------------
(* Values *)

Peers == {"A", "B"}

BROKER_LIST == <<"wss://broker.emqx.io:8084/mqtt",
                 "wss://public.mqtthq.com:8084/mqtt",
                 "wss://test.mosquitto.org:8081">>

Null == "<null>"

LOGIN == "LOGIN"
SETUP == "SETUP"
CHAT  == "CHAT"

Names    == {"Al"}                \* names a user types
GenNames == {"RadNet7"}           \* generateRandomName()
Texts    == {"", " ", "hi"}       \* values of the chat input; " " is whitespace only

DecryptFailed == "?? [Decryption Failed] ??"
USER_JOINED   == "USER_JOINED"
HOST_ACK      == "HOST_ACK"

(* Session codes: the ID segment names the room, the KEY segment is the    *)
(* key seed.                                                               *)
CodeTable == [c \in {"R1K1", "R2K2"} |->
                 IF c = "R1K1" THEN [peerId |-> "R1", key |-> "K1"]
                               ELSE [peerId |-> "R2", key |-> "K2"]]
Codes == DOMAIN CodeTable
KeySeeds == {CodeTable[c].key : c \in Codes}
JoinInputs == {"", "bad", "R1K1"}

(* A generated code is random: it is new, here with respect to the code    *)
(* of the session before it.                                               *)
generateSessionCode(last) == IF last = "R1K1" THEN {"R2K2"} ELSE {"R1K1"}

parseSessionCode(input) ==
    IF input \in Codes
    THEN [rawCode |-> input, peerId |-> CodeTable[input].peerId,
          key |-> CodeTable[input].key]
    ELSE [rawCode |-> Null, peerId |-> Null, key |-> Null]

Parsed(r) == r.rawCode # Null

trim(text) == IF text = " " THEN "" ELSE text

---------------------------------------------------------------------------
(* utils/crypto.ts *)

NoPayload == [k |-> Null, pt |-> Null]

(* new TextEncoder().encode(text): the UTF-8 bytes of the text, written    *)
(* here as the text they decode to.  A string is a sequence of UTF-16 code *)
(* units; a surrogate without its partner has no UTF-8 form and is encoded *)
(* as U+FFFD.  LoneSurrogate stands for a text that holds one.             *)
LoneSurrogate   == "<D800>"
ReplacementChar == "<FFFD>"

TextEncode(text) == IF text = LoneSurrogate THEN ReplacementChar ELSE text

(* encryptMessage that hands the text on as it is. *)
encryptMessage_Clear(text, password) == [k |-> Null, pt |-> text]

encryptMessage(text, password) == [k |-> password, pt |-> TextEncode(text)]

(* decryptMessage that opens a payload under any password. *)
decryptMessage_NoAuth(payload, password) == payload.pt

decryptMessage(payload, password) ==
    IF payload.k = password THEN payload.pt ELSE DecryptFailed

---------------------------------------------------------------------------
(* The state record the handlers transform *)

(* wire is what the step handed to the transport: the frames published    *)
(* in it, each with the publishing client and the topic.                   *)
Cur == [ui |-> ui, ref |-> ref, clients |-> clients, timers |-> timers,
        wire |-> {}]

(* A client that is ended (or never came to exist) and that clientRef no   *)
(* longer holds gets no event and no call again: what it closed over is    *)
(* dropped from the state.                                                 *)
Collected(s) ==
    [c \in DOMAIN s.clients |->
        IF /\ s.clients[c].state \in {"ended", "failed"}
           /\ s.ref[s.clients[c].owner].clientRef # c
        THEN [owner |-> s.clients[c].owner, broker |-> s.clients[c].broker,
              state |-> s.clients[c].state, subPending |-> FALSE,
              subscribed |-> FALSE,
              ctx |-> [s.clients[c].ctx EXCEPT !.key = "", !.isHosting = FALSE,
                                               !.retryOnClose = FALSE, !.username = ""],
              inbox |-> <<>>]
        ELSE s.clients[c]]

Commit(s) ==
    /\ ui' = s.ui
    /\ ref' = s.ref
    /\ clients' = Collected(s)
    /\ timers' = s.timers
    /\ wire' = s.wire

InitUi == [screen |-> LOGIN, username |-> "", isHost |-> TRUE,
           sessionCode |-> "", joinCodeInput |-> "", roomKey |-> "",
           status |-> "Offline", errorMsg |-> Null, pendingJoinCode |-> Null,
           messages |-> <<>>, inputText |-> "", isRemoteTyping |-> FALSE]

InitRef == [clientRef |-> 0, topicRef |-> "", currentBrokerIndex |-> 0,
            connectionTimeoutRef |-> 0, typingSendTimeoutRef |-> 0,
            typingReceiveTimeoutRef |-> 0]

(* What a handler closes over in the render that created it: username,   *)
(* and screen and status, which only the condition of client.on('close')   *)
(* reads; retryOnClose is that condition on the values closed over.        *)
Closure(s, p) ==
    [retryOnClose |-> /\ s.ui[p].screen # LOGIN
                      /\ s.ui[p].screen # SETUP
                      /\ s.ui[p].status # "Waiting for Peer...",
     username |-> s.ui[p].username]

Ctx(p, code, key, isHosting, env) ==
    [owner |-> p, code |-> code, key |-> key, isHosting |-> isHosting,
     retryOnClose |-> env.retryOnClose, username |-> env.username]

Topic(code) == "rc95/s/" \o code

DialingStatus == <<"Dialing Relay 1...", "Dialing Relay 2...", "Dialing Relay 3...">>

---------------------------------------------------------------------------
(* Timers: setTimeout / clearTimeout *)

(* timers is the set of pending timers.  A handle is the kind of the      *)
(* timer and a number: for the connection timeout the number of the client *)
(* it was armed for, otherwise the least number that no pending timer of   *)
(* that kind and no ref of the component holds.                            *)
UsedIds(s, kind, p) ==
    {t.id : t \in {x \in s.timers : x.kind = kind /\ x.owner = p}}
    \cup (IF kind = "typingSend" THEN {s.ref[p].typingSendTimeoutRef}
          ELSE IF kind = "typingRecv" THEN {s.ref[p].typingReceiveTimeoutRef}
          ELSE {})

FreshId(s, kind, p) ==
    CHOOSE n \in 1..(Cardinality(UsedIds(s, kind, p)) + 1) :
        /\ n \notin UsedIds(s, kind, p)
        /\ \A m \in 1..(n - 1) : m \in UsedIds(s, kind, p)

Timer(kind, id, owner, client, ctx) ==
    [kind |-> kind, id |-> id, owner |-> owner, client |-> client, ctx |-> ctx]

NoCtx == Ctx("A", "", "", FALSE, [retryOnClose |-> FALSE, username |-> ""])

setTimeout(s, t) == [s EXCEPT !.timers = @ \cup {t}]

clearTimeout(s, kind, p, id) ==
    [s EXCEPT !.timers = {t \in @ : ~(t.kind = kind /\ t.owner = p /\ t.id = id)}]

---------------------------------------------------------------------------
(* The mqtt client object, as far as the component uses it.                *)
(* clients lists the calls of mqtt.connect in the order they were made.    *)
(* state: connecting (mqtt.connect or reconnect() called, no CONNACK yet), *)
(* connected, closed ('close' emitted without end()), ending (end() called,*)
(* 'close' not yet emitted), ended; failed: mqtt.connect threw and there   *)
(* is no client object.  An inbox entry is a frame with the client that    *)
(* published it (0: a foreign client), which no handler reads.             *)

Client(ctx, broker) ==
    [owner |-> ctx.owner, broker |-> broker, state |-> "connecting",
     subPending |-> FALSE, subscribed |-> FALSE, ctx |-> ctx, inbox |-> <<>>]

connected(s, c) == s.clients[c].state = "connected"

Live(cl) == cl.state \in {"connecting", "connected"}

end(s, c) ==
    [s EXCEPT !.clients[c].state =
                  IF @ \in {"connecting", "connected"} THEN "ending"
                  ELSE IF @ = "closed" THEN "ended" ELSE @,
              !.clients[c].subscribed = FALSE,
              !.clients[c].inbox = <<>>]

reconnect(s, c) ==
    [s EXCEPT !.clients[c].state = "connecting",
              !.clients[c].subPending = FALSE,
              !.clients[c].subscribed = FALSE,
              !.clients[c].inbox = <<>>]

Frame(type, sender, payload) == [type |-> type, sender |-> sender, payload |-> payload]

(* The broker hands a published frame to every client subscribed to the    *)
(* topic on that broker, the publisher included.                           *)
Receives(s, d, broker, topic) ==
    /\ s.clients[d].state = "connected"
    /\ s.clients[d].subscribed
    /\ s.clients[d].broker = broker
    /\ Topic(s.clients[d].ctx.code) = topic

publish(s, c, topic, frame) ==
    IF connected(s, c)
    THEN [s EXCEPT !.wire = @ \cup {[client |-> c, topic |-> topic, frame |-> frame]},
                   !.clients = [d \in DOMAIN @ |->
                       IF Receives(s, d, s.clients[c].broker, topic)
                       THEN [@[d] EXCEPT !.inbox = Append(@, [from |-> c, frame |-> frame])]
                       ELSE @[d]]]
    ELSE s

---------------------------------------------------------------------------
(* Handlers of the component (src/App.tsx) *)

(* addMessage that puts the new entry in front of the log. *)
addMessage_Prepend(s, p, sender, content, isSystem) ==
    [s EXCEPT !.ui[p].messages =
        <<[id |-> <<p, Len(@) + 1>>, sender |-> sender,
           content |-> content, isSystem |-> isSystem]>> \o @]

addMessage(s, p, sender, content, isSystem) ==
    [s EXCEPT !.ui[p].messages =
        Append(@, [id |-> <<p, Len(@) + 1>>, sender |-> sender,
                   content |-> content, isSystem |-> isSystem])]

addSystemMessage(s, p, content) == addMessage(s, p, "SYSTEM", content, TRUE)

(* tryNextBroker advancing the index by two. *)
tryNextBroker_Skip(s, ctx) ==
    LET p    == ctx.owner
        next == (s.ref[p].currentBrokerIndex + 2) % Len(BROKER_LIST)
        s1   == [s EXCEPT !.ref[p].currentBrokerIndex = next]
        s2   == IF next = 0
                THEN [s1 EXCEPT !.ui[p].errorMsg = "Retrying Connection..."]
                ELSE s1
    IN setTimeout(s2, Timer("retry", FreshId(s2, "retry", p), p, 0, ctx))

tryNextBroker(s, ctx) ==
    LET p    == ctx.owner
        next == (s.ref[p].currentBrokerIndex + 1) % Len(BROKER_LIST)
        s1   == [s EXCEPT !.ref[p].currentBrokerIndex = next]
        s2   == IF next = 0
                THEN [s1 EXCEPT !.ui[p].errorMsg = "Retrying Connection..."]
                ELSE s1
    IN setTimeout(s2, Timer("retry", FreshId(s2, "retry", p), p, 0, ctx))

(* connectToMqtt without its "Disconnect if exists" block. *)
connectToMqtt_NoTeardown(s, ctx, throws) ==
    LET p   == ctx.owner
        idx == s.ref[p].currentBrokerIndex
        s2  == [s EXCEPT !.ref[p].topicRef = Topic(ctx.code),
                         !.ui[p].status = DialingStatus[idx + 1]]
        c   == Len(s2.clients) + 1
        s3  == [s2 EXCEPT !.clients = Append(@, Client(ctx, idx)),
                          !.ref[p].clientRef = c]
        s4  == [setTimeout(s3, Timer("conn", c, p, c, ctx))
                   EXCEPT !.ref[p].connectionTimeoutRef = c]
        thrown == [s2 EXCEPT !.clients =
                      Append(@, [Client(ctx, idx) EXCEPT !.state = "failed"])]
    IN IF throws THEN tryNextBroker(thrown, ctx) ELSE s4

(* throws: mqtt.connect raised, and the catch block ran. *)
connectToMqtt(s, ctx, throws) ==
    LET p   == ctx.owner
        old == s.ref[p].clientRef
        s1  == IF old # 0
               THEN [end(s, old) EXCEPT !.ref[p].clientRef = 0]
               ELSE s
        idx == s1.ref[p].currentBrokerIndex
        s2  == [s1 EXCEPT !.ref[p].topicRef = Topic(ctx.code),
                          !.ui[p].status = DialingStatus[idx + 1]]
        c   == Len(s2.clients) + 1
        s3  == [s2 EXCEPT !.clients = Append(@, Client(ctx, idx)),
                          !.ref[p].clientRef = c]
        s4  == [setTimeout(s3, Timer("conn", c, p, c, ctx))
                   EXCEPT !.ref[p].connectionTimeoutRef = c]
        thrown == [s2 EXCEPT !.clients =
                      Append(@, [Client(ctx, idx) EXCEPT !.state = "failed"])]
    IN IF throws THEN tryNextBroker(thrown, ctx) ELSE s4

initHostSession(s, p, env, newCode, throws) ==
    LET parsed == parseSessionCode(newCode)
    IN IF ~Parsed(parsed)
       THEN [s EXCEPT !.ui[p].errorMsg = "Error generating secure code."]
       ELSE connectToMqtt(
               [s EXCEPT !.ui[p].sessionCode = parsed.rawCode,
                         !.ui[p].roomKey = parsed.key,
                         !.ui[p].status = "Initializing Host...",
                         !.ui[p].errorMsg = Null,
                         !.ref[p].currentBrokerIndex = 0,
                         !.ui[p].isHost = TRUE],
               Ctx(p, parsed.rawCode, parsed.key, TRUE, env), throws)

(* joinSession that reports a rejected code and dials with it all the     *)
(* same.                                                                   *)
joinSession_Dial(s, p, env, pending, typed, throws) ==
    LET codeToUse == IF pending # Null /\ pending # "" THEN pending ELSE typed
        parsed == parseSessionCode(codeToUse)
    IN IF codeToUse = "" THEN s
       ELSE IF ~Parsed(parsed)
       THEN connectToMqtt(
               [s EXCEPT !.ui[p].errorMsg = "Invalid Code Format.",
                         !.ref[p].currentBrokerIndex = 0],
               Ctx(p, codeToUse, "", FALSE, env), throws)
       ELSE connectToMqtt(
               [s EXCEPT !.ui[p].sessionCode = parsed.rawCode,
                         !.ui[p].roomKey = parsed.key,
                         !.ui[p].errorMsg = Null,
                         !.ui[p].status = "Locating Host...",
                         !.ref[p].currentBrokerIndex = 0,
                         !.ui[p].isHost = FALSE],
               Ctx(p, parsed.rawCode, parsed.key, FALSE, env), throws)

(* pending, typed: pendingJoinCode and joinCodeInput of the render that    *)
(* created this joinSession.                                               *)
joinSession(s, p, env, pending, typed, throws) ==
    LET codeToUse == IF pending # Null /\ pending # "" THEN pending ELSE typed
        parsed == parseSessionCode(codeToUse)
    IN IF codeToUse = "" THEN s
       ELSE IF ~Parsed(parsed)
       THEN [s EXCEPT !.ui[p].errorMsg = "Invalid Code Format."]
       ELSE connectToMqtt(
               [s EXCEPT !.ui[p].sessionCode = parsed.rawCode,
                         !.ui[p].roomKey = parsed.key,
                         !.ui[p].errorMsg = Null,
                         !.ui[p].status = "Locating Host...",
                         !.ref[p].currentBrokerIndex = 0,
                         !.ui[p].isHost = FALSE],
               Ctx(p, parsed.rawCode, parsed.key, FALSE, env), throws)

(* handleRemoteTyping that leaves the pending expiry timer running. *)
handleRemoteTyping_NoClear(s, p) ==
    LET s1 == [s EXCEPT !.ui[p].isRemoteTyping = TRUE]
        id == FreshId(s1, "typingRecv", p)
    IN [setTimeout(s1, Timer("typingRecv", id, p, 0, NoCtx))
           EXCEPT !.ref[p].typingReceiveTimeoutRef = id]

handleRemoteTyping(s, p) ==
    LET s1 == [s EXCEPT !.ui[p].isRemoteTyping = TRUE]
        s2 == IF s1.ref[p].typingReceiveTimeoutRef # 0
              THEN clearTimeout(s1, "typingRecv", p, s1.ref[p].typingReceiveTimeoutRef)
              ELSE s1
        id == FreshId(s2, "typingRecv", p)
    IN [setTimeout(s2, Timer("typingRecv", id, p, 0, NoCtx))
           EXCEPT !.ref[p].typingReceiveTimeoutRef = id]

(* sendSystemAnnouncement publishing the text without encrypting it. *)
sendSystemAnnouncement_Plain(s, p, client, topic, key, statusMsg) ==
    publish(s, client, topic,
            Frame("SYSTEM", s.ui[p].username, [k |-> Null, pt |-> statusMsg]))

sendSystemAnnouncement(s, p, client, topic, key, statusMsg) ==
    publish(s, client, topic,
            Frame("SYSTEM", s.ui[p].username, encryptMessage(statusMsg, key)))

(* the message handler with a catch block that shows the error *)
onMessage_Surface(s, c, f) ==
    LET ctx == s.clients[c].ctx
        p   == ctx.owner
        topic == Topic(ctx.code)
    IN IF f.type = "GARBAGE"
       THEN [s EXCEPT !.ui[p].errorMsg = "Message processing error"]
       ELSE IF f.sender = ctx.username /\ f.type # "SYSTEM" THEN s
       ELSE IF f.type = "TYPING" THEN handleRemoteTyping(s, p)
       ELSE IF f.type = "CHAT" /\ f.payload # NoPayload
       THEN addMessage(s, p,
                       IF f.sender \in {Null, ""} THEN "Unknown" ELSE f.sender,
                       decryptMessage(f.payload, ctx.key), FALSE)
       ELSE IF f.type = "SYSTEM" /\ f.payload # NoPayload
       THEN LET status == decryptMessage(f.payload, ctx.key)
            IN IF status = USER_JOINED
               THEN LET s1 == IF s.ui[p].isHost
                              THEN LET s0 == [s EXCEPT !.ui[p].screen = CHAT]
                                   IN IF s0.ref[p].clientRef # 0
                                      THEN sendSystemAnnouncement(s0, p,
                                               s0.ref[p].clientRef, topic, ctx.key, HOST_ACK)
                                      ELSE s0
                              ELSE s
                    IN IF f.sender # ctx.username
                       THEN addSystemMessage(s1, p, f.sender \o " entered the secure channel.")
                       ELSE s1
               ELSE IF status = HOST_ACK /\ ~s.ui[p].isHost
               THEN addSystemMessage(s, p, "Secure handshake complete.")
               ELSE s
       ELSE s

(* client.on('message'): f is the frame the broker delivered to client c.  *)
(* type GARBAGE is a payload JSON.parse rejects; sender Null is a frame    *)
(* without a sender.                                                       *)
onMessage(s, c, f) ==
    LET ctx == s.clients[c].ctx
        p   == ctx.owner
        topic == Topic(ctx.code)
    IN IF f.type = "GARBAGE" THEN s
       ELSE IF f.sender = ctx.username /\ f.type # "SYSTEM" THEN s
       ELSE IF f.type = "TYPING" THEN handleRemoteTyping(s, p)
       ELSE IF f.type = "CHAT" /\ f.payload # NoPayload
       THEN addMessage(s, p,
                       IF f.sender \in {Null, ""} THEN "Unknown" ELSE f.sender,
                       decryptMessage(f.payload, ctx.key), FALSE)
       ELSE IF f.type = "SYSTEM" /\ f.payload # NoPayload
       THEN LET status == decryptMessage(f.payload, ctx.key)
            IN IF status = USER_JOINED
               THEN LET s1 == IF s.ui[p].isHost
                              THEN LET s0 == [s EXCEPT !.ui[p].screen = CHAT]
                                   IN IF s0.ref[p].clientRef # 0
                                      THEN sendSystemAnnouncement(s0, p,
                                               s0.ref[p].clientRef, topic, ctx.key, HOST_ACK)
                                      ELSE s0
                              ELSE s
                    IN IF f.sender # ctx.username
                       THEN addSystemMessage(s1, p, f.sender \o " entered the secure channel.")
                       ELSE s1
               ELSE IF status = HOST_ACK /\ ~s.ui[p].isHost
               THEN addSystemMessage(s, p, "Secure handshake complete.")
               ELSE s
       ELSE s

(* client.on('connect') *)
onConnect(s, c) ==
    LET ctx == s.clients[c].ctx
        p   == ctx.owner
        s1  == IF s.ref[p].connectionTimeoutRef # 0
               THEN clearTimeout(s, "conn", p, s.ref[p].connectionTimeoutRef)
               ELSE s
    IN [s1 EXCEPT !.ui[p].status = IF ctx.isHosting THEN "Waiting for Peer..."
                                                    ELSE "Secure Link Est.",
                  !.clients[c].subPending = TRUE]

(* the callback of client.subscribe *)
onSubscribed(s, c, err) ==
    LET ctx == s.clients[c].ctx
        p   == ctx.owner
    IN IF ~err
       THEN LET s1 == [s EXCEPT !.ui[p].errorMsg = Null]
            IN IF ~ctx.isHosting
               THEN setTimeout([s1 EXCEPT !.ui[p].screen = CHAT],
                               Timer("announce", FreshId(s1, "announce", p), p, c, ctx))
               ELSE s1
       ELSE [s EXCEPT !.ui[p].errorMsg = "Subscription Error"]

(* client.on('close') *)
onClose(s, c) ==
    LET ctx == s.clients[c].ctx
    IN IF ctx.retryOnClose
       THEN tryNextBroker(s, ctx)
       ELSE s

(* the callback of the 6000 ms timer of connectToMqtt *)
onConnectionTimeout(s, c, ctx) ==
    IF ~connected(s, c) THEN tryNextBroker(end(s, c), ctx) ELSE s

(* handleInputChange that sends a typing signal on every input. *)
handleInputChange_NoThrottle(s, p, val) ==
    LET s1 == [s EXCEPT !.ui[p].inputText = val]
        c  == s.ref[p].clientRef
    IN IF val # "" /\ c # 0 /\ connected(s, c)
       THEN LET s2 == publish(s1, c, s1.ref[p].topicRef,
                              Frame("TYPING", s1.ui[p].username, NoPayload))
                id == FreshId(s2, "typingSend", p)
            IN [setTimeout(s2, Timer("typingSend", id, p, 0, NoCtx))
                   EXCEPT !.ref[p].typingSendTimeoutRef = id]
       ELSE s1

handleInputChange(s, p, val) ==
    LET s1 == [s EXCEPT !.ui[p].inputText = val]
        c  == s.ref[p].clientRef
    IN IF val # "" /\ c # 0 /\ connected(s, c) /\ s.ref[p].typingSendTimeoutRef = 0
       THEN LET s2 == publish(s1, c, s1.ref[p].topicRef,
                              Frame("TYPING", s1.ui[p].username, NoPayload))
                id == FreshId(s2, "typingSend", p)
            IN [setTimeout(s2, Timer("typingSend", id, p, 0, NoCtx))
                   EXCEPT !.ref[p].typingSendTimeoutRef = id]
       ELSE s1

(* sendMessage that only rejects the empty string. *)
sendMessage_NoTrim(s, p, throws) ==
    IF s.ui[p].inputText = "" THEN s
    ELSE LET textToSend == s.ui[p].inputText
             s1 == addMessage([s EXCEPT !.ui[p].inputText = ""], p,
                              s.ui[p].username, textToSend, FALSE)
             c  == s1.ref[p].clientRef
         IN IF c # 0 /\ connected(s1, c)
            THEN IF throws
                 THEN addSystemMessage(s1, p, "Encryption failed.")
                 ELSE publish(s1, c, s1.ref[p].topicRef,
                              Frame("CHAT", s1.ui[p].username,
                                    encryptMessage(textToSend, s1.ui[p].roomKey)))
            ELSE LET s2 == addSystemMessage(s1, p, "Connection lost. Retrying...")
                 IN IF c # 0 THEN reconnect(s2, c) ELSE s2

(* sendMessage that reports no failure in the log. *)
sendMessage_Silent(s, p, throws) ==
    IF trim(s.ui[p].inputText) = "" THEN s
    ELSE LET textToSend == s.ui[p].inputText
             s1 == addMessage([s EXCEPT !.ui[p].inputText = ""], p,
                              s.ui[p].username, textToSend, FALSE)
             c  == s1.ref[p].clientRef
         IN IF c # 0 /\ connected(s1, c)
            THEN IF throws
                 THEN s1
                 ELSE publish(s1, c, s1.ref[p].topicRef,
                              Frame("CHAT", s1.ui[p].username,
                                    encryptMessage(textToSend, s1.ui[p].roomKey)))
            ELSE IF c # 0 THEN reconnect(s1, c) ELSE s1

(* throws: encryptMessage (or publish) raised, and the catch block ran. *)
sendMessage(s, p, throws) ==
    IF trim(s.ui[p].inputText) = "" THEN s
    ELSE LET textToSend == s.ui[p].inputText
             s1 == addMessage([s EXCEPT !.ui[p].inputText = ""], p,
                              s.ui[p].username, textToSend, FALSE)
             c  == s1.ref[p].clientRef
         IN IF c # 0 /\ connected(s1, c)
            THEN IF throws
                 THEN addSystemMessage(s1, p, "Encryption failed.")
                 ELSE publish(s1, c, s1.ref[p].topicRef,
                              Frame("CHAT", s1.ui[p].username,
                                    encryptMessage(textToSend, s1.ui[p].roomKey)))
            ELSE LET s2 == addSystemMessage(s1, p, "Connection lost. Retrying...")
                 IN IF c # 0 THEN reconnect(s2, c) ELSE s2

(* The timer of a pending auto-join carries, in ctx.code and ctx.key, the  *)
(* pendingJoinCode and joinCodeInput its joinSession closed over.          *)
handleLogin(s, p, rnd, newCode, throws) ==
    LET env == Closure(s, p)
        s1  == IF s.ui[p].username = "" THEN [s EXCEPT !.ui[p].username = rnd] ELSE s
    IN IF s.ui[p].pendingJoinCode # Null
       THEN setTimeout([s1 EXCEPT !.ui[p].isHost = FALSE, !.ui[p].screen = SETUP],
                       Timer("loginJoin", FreshId(s1, "loginJoin", p), p, 0,
                             Ctx(p, s.ui[p].pendingJoinCode, s.ui[p].joinCodeInput,
                                 FALSE, env)))
       ELSE IF s.ui[p].isHost
       THEN initHostSession([s1 EXCEPT !.ui[p].screen = SETUP], p, env, newCode, throws)
       ELSE [s1 EXCEPT !.ui[p].screen = SETUP]

switchMode(s, p, host) ==
    LET env == Closure(s, p)
        c   == s.ref[p].clientRef
        s1  == IF c # 0 THEN [end(s, c) EXCEPT !.ref[p].clientRef = 0] ELSE s
        s2  == [s1 EXCEPT !.ui[p].isHost = host,
                          !.ui[p].sessionCode = "",
                          !.ui[p].joinCodeInput = "",
                          !.ui[p].status = "Offline",
                          !.ui[p].errorMsg = Null]
    IN IF host
       THEN setTimeout(s2, Timer("hostInit", FreshId(s2, "hostInit", p), p, 0, Ctx(p, "", "", TRUE, env)))
       ELSE s2

---------------------------------------------------------------------------
(* Guards that keep the model finite *)

LastCode == IF clients = <<>> THEN "" ELSE clients[Len(clients)].ctx.code

ClientRoom == Len(clients) < MaxClients
TimerRoom  == Cardinality(timers) < MaxTimers
LogRoom(p, n) == Len(ui[p].messages) + n <= MaxLog
InboxRoom(s) == \A d \in DOMAIN s.clients : Len(s.clients[d].inbox) < MaxInbox
InboxFits(s) == \A d \in DOMAIN s.clients : Len(s.clients[d].inbox) <= MaxInbox

PendingInputs == {Null, "R1K1"}

(* Frames a foreign client of the broker may publish on the topic. *)
EnvFrames ==
    {Frame("CHAT", "Bo", encryptMessage("hi", "K1")),
     Frame("CHAT", "Al", encryptMessage("hi", "K1")),
     Frame("CHAT", "Bo", encryptMessage("hi", "K2")),
     Frame("SYSTEM", "Bo", encryptMessage(USER_JOINED, "K1")),
     Frame("SYSTEM", "Bo", encryptMessage(HOST_ACK, "K1")),
     Frame("TYPING", "Bo", NoPayload),
     Frame("GARBAGE", Null, NoPayload)}

---------------------------------------------------------------------------
(* User actions *)

SetUsername(p, name) ==
    /\ ui[p].screen = LOGIN
    /\ name # ui[p].username
    /\ Commit([Cur EXCEPT !.ui[p].username = name])

Login(p) ==
    /\ ui[p].screen = LOGIN
    /\ ClientRoom /\ TimerRoom
    /\ \E rnd \in GenNames, newCode \in generateSessionCode(LastCode), throws \in BOOLEAN :
          Commit(handleLogin(Cur, p, rnd, newCode, throws))

SwitchMode(p, host) ==
    /\ ui[p].screen = SETUP
    /\ TimerRoom
    /\ Commit(switchMode(Cur, p, host))

SetJoinCodeInput(p, v) ==
    /\ ui[p].screen = SETUP /\ ~ui[p].isHost
    /\ v # ui[p].joinCodeInput
    /\ Commit([Cur EXCEPT !.ui[p].joinCodeInput = v])

JoinClick(p) ==
    /\ ui[p].screen = SETUP /\ ~ui[p].isHost
    /\ ClientRoom /\ TimerRoom
    /\ \E throws \in BOOLEAN :
          Commit(joinSession(Cur, p, Closure(Cur, p), ui[p].pendingJoinCode,
                             ui[p].joinCodeInput, throws))

GoBack(p) ==
    /\ ui[p].screen = SETUP
    /\ Commit([Cur EXCEPT !.ui[p].screen = LOGIN])

InputChange(p, val) ==
    /\ ui[p].screen = CHAT
    /\ val # ui[p].inputText
    /\ TimerRoom /\ InboxRoom(Cur)
    /\ Commit(handleInputChange(Cur, p, val))

Send(p) ==
    /\ ui[p].screen = CHAT
    /\ LogRoom(p, 2) /\ InboxRoom(Cur)
    /\ Commit(sendMessage(Cur, p, FALSE))

(* a send whose encryption raises *)
SendFailing(p) ==
    /\ ui[p].screen = CHAT
    /\ LogRoom(p, 2)
    /\ Commit(sendMessage(Cur, p, TRUE))

---------------------------------------------------------------------------
(* Timers firing *)

Fired(t) == [Cur EXCEPT !.timers = @ \ {t}]

ConnectionTimeout(t) ==
    /\ t.kind = "conn"
    /\ Commit(onConnectionTimeout(Fired(t), t.client, t.ctx))

Retry(t) ==
    /\ t.kind = "retry"
    /\ ClientRoom
    /\ \E throws \in BOOLEAN : Commit(connectToMqtt(Fired(t), t.ctx, throws))

Announce(t) ==
    /\ t.kind = "announce"
    /\ InboxRoom(Cur)
    /\ Commit(sendSystemAnnouncement(Fired(t), t.owner, t.client,
                                     Topic(t.ctx.code), t.ctx.key,
                                     USER_JOINED))

TypingReceiveExpiry(t) ==
    /\ t.kind = "typingRecv"
    /\ Commit([Fired(t) EXCEPT !.ui[t.owner].isRemoteTyping = FALSE])

TypingSendExpiry(t) ==
    /\ t.kind = "typingSend"
    /\ Commit([Fired(t) EXCEPT !.ref[t.owner].typingSendTimeoutRef = 0])

HostInit(t) ==
    /\ t.kind = "hostInit"
    /\ ClientRoom
    /\ \E newCode \in generateSessionCode(LastCode), throws \in BOOLEAN :
          Commit(initHostSession(Fired(t), t.owner, t.ctx, newCode, throws))

LoginJoin(t) ==
    /\ t.kind = "loginJoin"
    /\ ClientRoom
    /\ \E throws \in BOOLEAN :
          Commit(joinSession(Fired(t), t.owner, t.ctx,
                             t.ctx.code, t.ctx.key, throws))

---------------------------------------------------------------------------
(* Events of the mqtt client *)

NetConnect(c) ==
    /\ clients[c].state = "connecting"
    /\ Commit(onConnect([Cur EXCEPT !.clients[c].state = "connected"], c))

NetSubAck(c, err) ==
    /\ clients[c].state = "connected" /\ clients[c].subPending
    /\ TimerRoom
    /\ Commit(onSubscribed([Cur EXCEPT !.clients[c].subPending = FALSE,
                                       !.clients[c].subscribed = ~err], c, err))

NetError(c) ==
    /\ Live(clients[c])
    /\ UNCHANGED vars

(* 'close': a subscribe still waiting for its SUBACK gets its callback     *)
(* called with an error first.                                             *)
NetClose(c) ==
    /\ clients[c].state \in {"connecting", "connected", "ending"}
    /\ TimerRoom
    /\ LET s1 == [Cur EXCEPT !.clients[c].state =
                                 IF @ = "ending" THEN "ended" ELSE "closed",
                             !.clients[c].subPending = FALSE,
                             !.clients[c].subscribed = FALSE,
                             !.clients[c].inbox = <<>>]
           s2 == IF clients[c].subPending THEN onSubscribed(s1, c, TRUE) ELSE s1
       IN Commit(onClose(s2, c))

Deliver(c) ==
    /\ clients[c].state = "connected"
    /\ clients[c].inbox # <<>>
    /\ LogRoom(clients[c].owner, 1) /\ TimerRoom
    /\ LET s1 == [Cur EXCEPT !.clients[c].inbox = Tail(@)]
           s2 == onMessage(s1, c, Head(clients[c].inbox).frame)
       IN InboxFits(s2) /\ Commit(s2)

EnvPublish(c, f) ==
    /\ clients[c].state = "connected" /\ clients[c].subscribed
    /\ InboxRoom(Cur)
    /\ Commit([Cur EXCEPT !.clients[c].inbox = Append(@, [from |-> 0, frame |-> f])])

---------------------------------------------------------------------------
(* Specifications *)

Init ==
    /\ \E pj \in PendingInputs :
          ui = [p \in Peers |->
                   IF p = "A" THEN [InitUi EXCEPT !.pendingJoinCode = pj] ELSE InitUi]
    /\ ref = [p \in Peers |-> InitRef]
    /\ clients = <<>>
    /\ timers = {}
    /\ wire = {}

Session(p) ==
    \/ Login(p)
    \/ \E host \in BOOLEAN : SwitchMode(p, host)
    \/ \E v \in JoinInputs : SetJoinCodeInput(p, v)
    \/ JoinClick(p)
    \/ GoBack(p)

Chat(p) ==
    \/ \E val \in Texts : InputChange(p, val)
    \/ Send(p)

SessionTimers ==
    \E t \in timers :
        \/ ConnectionTimeout(t)
        \/ Retry(t)
        \/ Announce(t)
        \/ HostInit(t)
        \/ LoginJoin(t)

ChatTimers ==
    \E t \in timers :
        \/ TypingReceiveExpiry(t)
        \/ TypingSendExpiry(t)

Network ==
    \E c \in DOMAIN clients :
        \/ NetConnect(c)
        \/ \E err \in BOOLEAN : NetSubAck(c, err)
        \/ NetError(c)
        \/ NetClose(c)
        \/ Deliver(c)

Foreign ==
    \E c \in DOMAIN clients, f \in EnvFrames : EnvPublish(c, f)

(* One peer with all its session controls.  Whitespace-only input is left  *)
(* to the specifications of the chat.                                      *)
Next ==
    \/ Session("A")
    \/ Chat("A") /\ ui'["A"].inputText # " "
    \/ SessionTimers
    \/ ChatTimers
    \/ Network

Spec == Init /\ [][Next]_vars

---------------------------------------------------------------------------
(* Claims about candidate cycling and the life of the transport client *)

Attempts == DOMAIN clients
NewAttempt == Len(clients') = Len(clients) + 1
Newest == clients'[Len(clients')]

(* C1: when an attempt has failed, the attempt that the retry starts       *)
(* targets the candidate after the one the latest attempt targeted: the    *)
(* index advances by one per failed attempt and no candidate is skipped.   *)
C1_NextCandidate ==
    [][\A t \in timers :
          Retry(t) /\ NewAttempt =>
              Newest.broker = (clients[Len(clients)].broker + 1) % Len(BROKER_LIST)]_vars

(* C3: when the connected client of a peer that is in the chat closes      *)
(* without a leave, the candidate cycling is resumed: a retry is scheduled.*)
C3_ReconnectOnDrop ==
    [][\A c \in Attempts :
          /\ clients[c].state = "connected"
          /\ ref[clients[c].owner].clientRef = c
          /\ ui[clients[c].owner].screen = CHAT
          /\ clients'[c].state = "closed"
          => \E t \in timers' : t.kind = "retry" /\ t.ctx = clients[c].ctx]_vars

(* C4: a started session that was not left is never disconnected with      *)
(* nothing scheduled: its client is connected and subscribed, or an        *)
(* attempt, a SUBACK, a connection timeout or a retry is pending.          *)
Started(p) == ui[p].sessionCode # ""

Up(p) ==
    /\ ref[p].clientRef # 0
    /\ clients[ref[p].clientRef].state = "connected"
    /\ clients[ref[p].clientRef].subscribed

Scheduled(p) ==
    \/ \E c \in Attempts :
          /\ clients[c].owner = p
          /\ \/ clients[c].state = "connecting"
             \/ clients[c].state = "connected" /\ clients[c].subPending
    \/ \E t \in timers : t.owner = p /\ t.kind \in {"conn", "retry"}

C4_NeverStuck == \A p \in Peers : Started(p) => Up(p) \/ Scheduled(p)

(* C5: at most one client of a peer is live in every reachable state.      *)
LiveClients(p) == {c \in Attempts : clients[c].owner = p /\ Live(clients[c])}

C5_OneLiveClient == \A p \in Peers : Cardinality(LiveClients(p)) <= 1

(* a client is live after an earlier client of the same peer was ended *)
C5_Witness ==
    \E c1, c2 \in Attempts :
        /\ c1 < c2
        /\ clients[c1].owner = clients[c2].owner
        /\ clients[c1].state \in {"ending", "ended"}
        /\ Live(clients[c2])

(* C6: after a session was left or replaced, no timer of the old session   *)
(* starts a connection attempt for the old code: every attempt that is     *)
(* started is for the session code the peer holds.                         *)
C6_NoStaleAttempt ==
    [][NewAttempt => Newest.ctx.code = ui'[Newest.owner].sessionCode]_vars

---------------------------------------------------------------------------
(* Failover scenario: one login, the first two candidates never accept,    *)
(* the third one does.                                                     *)

Accepting == 2

Refused(cl) == \E c \in DOMAIN cl : cl[c].broker = Accepting /\ cl[c].state = "failed"

FailoverUser ==
    \/ \E name \in Names \cup {""} : SetUsername("A", name)
    \/ Login("A") /\ ~Refused(clients')

FailoverTimers ==
    \E t \in timers :
        \/ ConnectionTimeout(t) /\ clients[t.client].broker # Accepting
        \/ Retry(t) /\ ~Refused(clients')
        \/ LoginJoin(t) /\ ~Refused(clients')
        \/ Announce(t)

FailoverNetwork ==
    \E c \in DOMAIN clients :
        \/ NetConnect(c) /\ clients[c].broker = Accepting
        \/ \E err \in BOOLEAN : NetSubAck(c, err)
        \/ NetError(c)
        \/ NetClose(c) /\ (clients[c].broker = Accepting => clients[c].state # "connecting")
        \/ Deliver(c)

NextFailover == FailoverUser \/ FailoverTimers \/ FailoverNetwork

SpecFailover == Init /\ [][NextFailover]_vars

(* C2: with candidates 1 and 2 failing and candidate 3 accepting, the      *)
(* attempts are on candidates 1, 2, 3 in that order, each once; the client *)
(* that connects is the third attempt, on candidate 3; each attempt shows  *)
(* its own "Dialing Relay n" status and nothing else shows one, so exactly *)
(* two further dialing statuses follow the first.                          *)
C2_FailoverOrder ==
    /\ [](\A c \in Attempts : clients[c].broker = c - 1)
    /\ [](\A c \in Attempts : clients[c].state = "connected" => c = Len(BROKER_LIST))
    /\ [][NewAttempt => ui'[Newest.owner].status = DialingStatus[Len(clients')]]_vars
    /\ [][\A p \in Peers, i \in DOMAIN DialingStatus :
             ui'[p].status = DialingStatus[i] /\ ui[p].status # DialingStatus[i]
             => NewAttempt]_vars

(* the third attempt is connected on candidate 3 after two failed attempts *)
C2_Witness ==
    /\ Len(clients) = Len(BROKER_LIST)
    /\ clients[1].state \in {"ending", "ended", "failed"}
    /\ clients[2].state \in {"ending", "ended", "failed"}
    /\ clients[3].state = "connected" /\ clients[3].broker = Accepting
    /\ ref["A"].clientRef = 3

---------------------------------------------------------------------------
(* One peer and the other subscribers of its topic: a login (host, or      *)
(* guest of an invite link), the connection, and the chat.                 *)

ChatUser ==
    \/ \E name \in Names \cup {""} : SetUsername("A", name)
    \/ Login("A")

ChatSessionTimers ==
    \E t \in timers :
        \/ ConnectionTimeout(t)
        \/ Retry(t)
        \/ Announce(t)
        \/ LoginJoin(t)

NextChat ==
    ChatUser \/ Chat("A") \/ ChatSessionTimers \/ ChatTimers \/ Network \/ Foreign

SpecChat == Init /\ [][NextChat]_vars

(* The same peer with no other subscriber on its topic. *)
NextJoin == ChatUser \/ Chat("A") \/ ChatSessionTimers \/ ChatTimers \/ Network

SpecJoin == Init /\ [][NextJoin]_vars

HeadFrame(c) == Head(clients[c].inbox).frame

Announces(f, key, text) ==
    f.type = "SYSTEM" /\ f.payload # NoPayload /\ decryptMessage(f.payload, key) = text

(* C7: a host waiting for its peer that receives the SYSTEM USER_JOINED    *)
(* frame enters the chat and its status no longer is 'Waiting for          *)
(* Peer...'.                                                               *)
C7_HostEntersConnected ==
    [][\A c \in Attempts :
          LET p == clients[c].owner IN
          /\ Deliver(c)
          /\ ui[p].isHost /\ ui[p].screen = SETUP
          /\ ui[p].status = "Waiting for Peer..."
          /\ ref[p].clientRef = c
          /\ Announces(HeadFrame(c), clients[c].ctx.key, USER_JOINED)
          => ui'[p].screen = CHAT /\ ui'[p].status # "Waiting for Peer..."]_vars

(* the host has entered the chat on a USER_JOINED frame *)
C7_Witness ==
    /\ ui["A"].isHost /\ ui["A"].screen = CHAT
    /\ \E i \in DOMAIN ui["A"].messages :
          ui["A"].messages[i].content = "Bo entered the secure channel."

(* C8: a guest whose transport opens shows the link as established, enters *)
(* the chat when its subscription is acknowledged, and when its announce   *)
(* timer finds the client connected it publishes, through the one live     *)
(* client and on the topic of that client's session, one SYSTEM frame      *)
(* whose payload is USER_JOINED encrypted under the key of the session.    *)
C8_GuestAnnounces ==
    /\ [][\A c \in Attempts :
             NetConnect(c) /\ ~clients[c].ctx.isHosting
             => ui'[clients[c].owner].status = "Secure Link Est."]_vars
    /\ [][\A c \in Attempts :
             NetSubAck(c, FALSE) /\ ~clients[c].ctx.isHosting
             => /\ ui'[clients[c].owner].screen = CHAT
                /\ \E t \in timers' : t.kind = "announce" /\ t.client = c]_vars
    /\ [][\A t \in timers :
             Announce(t) /\ clients[t.client].state = "connected"
             => /\ ref[t.owner].clientRef = t.client
                /\ LiveClients(t.owner) = {t.client}
                /\ \E w \in wire' :
                      /\ wire' = {w}
                      /\ w.client = t.client
                      /\ w.topic = Topic(clients[t.client].ctx.code)
                      /\ w.frame.sender = ui[t.owner].username
                      /\ Announces(w.frame, clients[t.client].ctx.key, USER_JOINED)]_vars

(* a guest in the chat has just published its USER_JOINED announcement *)
C8_Witness ==
    /\ ~ui["A"].isHost /\ ui["A"].screen = CHAT
    /\ ui["A"].status = "Secure Link Est."
    /\ \E w \in wire :
          /\ w.client = ref["A"].clientRef
          /\ Announces(w.frame, ui["A"].roomKey, USER_JOINED)

---------------------------------------------------------------------------
(* Two peers on one broker: A logs in as host under a name, B opens the    *)
(* invite link of A's session and logs in; the attempts are answered       *)
(* before their timeouts.                                                  *)

GuestNames == {"", "Al", "Bo"}

InitDuo ==
    /\ ui = [p \in Peers |->
                IF p = "B" THEN [InitUi EXCEPT !.pendingJoinCode = "R1K1"] ELSE InitUi]
    /\ ref = [p \in Peers |-> InitRef]
    /\ clients = <<>>
    /\ timers = {}
    /\ wire = {}

Threw(cl) == \E c \in DOMAIN cl : cl[c].state = "failed"

DuoUser ==
    \/ \E name \in Names : SetUsername("A", name)
    \/ \E name \in GuestNames : SetUsername("B", name)
    \/ Login("A") /\ ui["A"].username # "" /\ ~Threw(clients')
    \/ Login("B")
    \/ \E p \in Peers : Chat(p)

DuoTimers ==
    \E t \in timers :
        \/ LoginJoin(t) /\ ~Threw(clients')
        \/ Announce(t)
        \/ TypingReceiveExpiry(t)
        \/ TypingSendExpiry(t)

NextDuo == DuoUser \/ DuoTimers \/ Network

SpecDuo == InitDuo /\ [][NextDuo]_vars

Entry(m) == [sender |-> m.sender, content |-> m.content, isSystem |-> m.isSystem]

Gains(p, sender, content) ==
    /\ Len(ui'[p].messages) = Len(ui[p].messages) + 1
    /\ SubSeq(ui'[p].messages, 1, Len(ui[p].messages)) = ui[p].messages
    /\ Entry(ui'[p].messages[Len(ui'[p].messages)]) =
           [sender |-> sender, content |-> content, isSystem |-> FALSE]

(* host client h and guest client g serve the same session code and both   *)
(* are the connected, subscribed client of their peer                      *)
Paired(h, g) ==
    /\ clients[h].ctx.isHosting /\ ~clients[g].ctx.isHosting
    /\ clients[h].owner # clients[g].owner
    /\ clients[h].ctx.code = clients[g].ctx.code
    /\ \A c \in {h, g} :
          /\ ref[clients[c].owner].clientRef = c
          /\ clients[c].state = "connected" /\ clients[c].subscribed

(* C9: with a host and a guest connected for the same session code, when   *)
(* the guest sends a non-empty text its own log gains exactly one entry    *)
(* for it, the frame coming back to the guest adds nothing to its log, and *)
(* the delivery of the frame to the host adds exactly one entry to the     *)
(* host's log, with the guest's name as sender and the text as content.    *)
C9_EndToEnd ==
    [][\A h, g \in Attempts :
          Paired(h, g) =>
             LET host  == clients[h].owner
                 guest == clients[g].owner
             IN /\ Send(guest) /\ trim(ui[guest].inputText) # ""
                   => Gains(guest, ui[guest].username, ui[guest].inputText)
                /\ /\ Deliver(g)
                   /\ Head(clients[g].inbox).from = g
                   /\ HeadFrame(g).type = "CHAT"
                   => ui'[guest].messages = ui[guest].messages
                /\ /\ Deliver(h)
                   /\ Head(clients[h].inbox).from = g
                   /\ HeadFrame(h).type = "CHAT"
                   => Gains(host, ui[guest].username, HeadFrame(h).payload.pt)]_vars

(* the host has logged the text the guest sent, and the guest its echo *)
C9_Witness ==
    /\ ui["A"].isHost /\ ~ui["B"].isHost
    /\ \E i \in DOMAIN ui["A"].messages :
          Entry(ui["A"].messages[i]) = [sender |-> "Bo", content |-> "hi", isSystem |-> FALSE]
    /\ \E i \in DOMAIN ui["B"].messages :
          Entry(ui["B"].messages[i]) = [sender |-> "Bo", content |-> "hi", isSystem |-> FALSE]

---------------------------------------------------------------------------
(* The chat of one peer: its input, its sends (also one whose encryption   *)
(* raises), and what another subscriber of the topic publishes: typing     *)
(* signals and chat frames under the key of the session and under another. *)

TalkFrames ==
    {Frame("TYPING", "Bo", NoPayload),
     Frame("CHAT", "Bo", encryptMessage("hi", "K1")),
     Frame("CHAT", "Bo", encryptMessage("hi", "K2"))}

ForeignTalk ==
    \E c \in DOMAIN clients, f \in TalkFrames : EnvPublish(c, f)

TalkUser ==
    \/ \E name \in Names \cup {""} : SetUsername("A", name)
    \/ Login("A") /\ ~Threw(clients')

TalkTimers ==
    \E t \in timers :
        \/ LoginJoin(t) /\ ~Threw(clients')
        \/ Announce(t)

NextTalk ==
    \/ TalkUser
    \/ Chat("A")
    \/ SendFailing("A")
    \/ TalkTimers
    \/ ChatTimers
    \/ Network
    \/ ForeignTalk

SpecTalk == Init /\ [][NextTalk]_vars

(* C13: a send whose text is empty or whitespace only is rejected: the     *)
(* log, the input and every other part of the state stay as they are and   *)
(* no frame is handed to the transport.                                    *)
C13_EmptySendRejected ==
    [][\A p \in Peers :
          (Send(p) \/ SendFailing(p)) /\ trim(ui[p].inputText) = ""
          => /\ ui' = ui /\ ref' = ref /\ clients' = clients /\ timers' = timers
             /\ wire' = {}]_vars

(* a connected peer in the chat holds whitespace-only input beside a log   *)
(* that has an entry                                                       *)
C13_Witness ==
    /\ ui["A"].screen = CHAT /\ ui["A"].inputText = " "
    /\ ui["A"].messages # <<>>
    /\ Up("A")

Connected(p) == ref[p].clientRef # 0 /\ connected(Cur, ref[p].clientRef)

(* C15: a send of non-empty text while the client is not connected, or     *)
(* whose encryption or publish raises, keeps the text: the log gains the   *)
(* local echo and, right after it, one system entry, and no frame is       *)
(* handed to the transport.                                                *)
C15_FailedSendKept ==
    [][\A p \in Peers :
          LET text == ui[p].inputText
              n    == Len(ui[p].messages)
          IN /\ trim(text) # ""
             /\ \/ Send(p) /\ ~Connected(p)
                \/ SendFailing(p)
             => /\ Len(ui'[p].messages) = n + 2
                /\ SubSeq(ui'[p].messages, 1, n) = ui[p].messages
                /\ Entry(ui'[p].messages[n + 1]) =
                       [sender |-> ui[p].username, content |-> text, isSystem |-> FALSE]
                /\ ui'[p].messages[n + 2].isSystem
                /\ ui'[p].messages[n + 2].sender = "SYSTEM"
                /\ wire' = {}]_vars

(* the log ends with the echo of a text and the notice that the connection *)
(* was lost, and the client is connecting again                            *)
C15_Witness ==
    /\ Len(ui["A"].messages) = 2
    /\ Entry(ui["A"].messages[1]) =
           [sender |-> ui["A"].username, content |-> "hi", isSystem |-> FALSE]
    /\ ui["A"].messages[2].content = "Connection lost. Retrying..."
    /\ ref["A"].clientRef # 0
    /\ clients[ref["A"].clientRef].state = "connecting"

TypingFrames(w) == {x \in w : x.frame.type = "TYPING"}

ThrottleTimers(p) == {t \in timers : t.kind = "typingSend" /\ t.owner = p}

(* C18: the typing signal is throttled.  A step publishes at most one      *)
(* TYPING frame, and only as a change of the input to a non-empty text     *)
(* made while no throttle timer is pending; the publication arms the       *)
(* throttle timer; a peer never has two throttle timers pending, the       *)
(* timer reference holds the pending timer, and only the expiry of that    *)
(* timer allows the next TYPING frame.                                     *)
C18_TypingThrottled ==
    /\ [](\A p \in Peers :
            /\ Cardinality(ThrottleTimers(p)) <= 1
            /\ \A t \in ThrottleTimers(p) : ref[p].typingSendTimeoutRef = t.id
            /\ ref[p].typingSendTimeoutRef # 0 => ThrottleTimers(p) # {})
    /\ [][/\ Cardinality(TypingFrames(wire')) <= 1
          /\ \A w \in TypingFrames(wire') :
                LET p == clients[w.client].owner
                IN /\ \E val \in Texts : val # "" /\ InputChange(p, val)
                   /\ ThrottleTimers(p) = {}
                   /\ ref[p].typingSendTimeoutRef = 0
                   /\ ref'[p].typingSendTimeoutRef # 0]_vars
    /\ [][\A p \in Peers :
             ref[p].typingSendTimeoutRef # 0 /\ ref'[p].typingSendTimeoutRef = 0
             => \E t \in ThrottleTimers(p) : TypingSendExpiry(t)]_vars

(* a typing signal has just been published and its throttle timer is       *)
(* pending                                                                 *)
C18_Witness ==
    /\ ui["A"].inputText # ""
    /\ \E w \in TypingFrames(wire) : w.client = ref["A"].clientRef
    /\ ThrottleTimers("A") # {}

ExpiryTimers(ts, p) == {t \in ts : t.kind = "typingRecv" /\ t.owner = p}

(* a frame of another sender, which the handler does not drop as its own *)
FromOther(c) == HeadFrame(c).sender # clients[c].ctx.username

NextInbound ==
    \/ TalkUser
    \/ Chat("A")
    \/ SendFailing("A")
    \/ TalkTimers
    \/ ChatTimers
    \/ Network
    \/ Foreign

SpecInbound == Init /\ [][NextInbound]_vars

(* C16: the message log only grows at its end: every step leaves the      *)
(* entries it found in place, in their order, each with its id, sender and *)
(* content.                                                                *)
C16_AppendOnly ==
    [][\A p \in Peers :
          /\ Len(ui'[p].messages) >= Len(ui[p].messages)
          /\ \A i \in DOMAIN ui[p].messages :
                /\ ui'[p].messages[i].id = ui[p].messages[i].id
                /\ ui'[p].messages[i].sender = ui[p].messages[i].sender
                /\ ui'[p].messages[i].content = ui[p].messages[i].content]_vars

(* a log that holds an entry of the peer itself and, appended after it, an *)
(* entry for a frame of another sender                                     *)
C16_Witness ==
    /\ Len(ui["A"].messages) >= 2
    /\ ui["A"].messages[1].sender = ui["A"].username
    /\ ui["A"].messages[2].sender = "Bo"
    /\ ui["A"].messages[1].id # ui["A"].messages[2].id

HasFailure(p) ==
    \E i \in DOMAIN ui[p].messages : ui[p].messages[i].content = DecryptFailed

(* C19: a CHAT frame of another sender that does not open under the key of *)
(* the session costs nothing but its content: its delivery appends one     *)
(* entry whose content is the failure text, leaves the client connected    *)
(* and subscribed as it was, and changes nothing else; and a CHAT frame    *)
(* that opens under the key, delivered to a peer whose log already shows   *)
(* a failure, appends its text as usual.                                   *)
C19_DecryptFailureLocal ==
    [][\A c \in Attempts :
          LET p == clients[c].owner
              f == HeadFrame(c)
          IN Deliver(c) /\ f.type = "CHAT" /\ f.payload # NoPayload /\ FromOther(c)
             => /\ f.payload.k # clients[c].ctx.key
                   => /\ Gains(p, f.sender, DecryptFailed)
                      /\ ui' = [ui EXCEPT ![p].messages = ui'[p].messages]
                      /\ clients' = [clients EXCEPT ![c].inbox = Tail(@)]
                      /\ clients'[c].state = "connected"
                      /\ clients'[c].subscribed = clients[c].subscribed
                      /\ ref' = ref /\ timers' = timers /\ wire' = {}
                /\ f.payload.k = clients[c].ctx.key /\ HasFailure(p)
                   => Gains(p, f.sender, f.payload.pt)]_vars

(* the log shows a failure and, after it, the text of a later frame, and   *)
(* the client still is connected and subscribed                            *)
C19_Witness ==
    /\ Len(ui["A"].messages) = 2
    /\ ui["A"].messages[1].content = DecryptFailed
    /\ ui["A"].messages[2].content = "hi"
    /\ ui["A"].messages[2].sender = "Bo"
    /\ Up("A")

---------------------------------------------------------------------------
(* The cipher on its own: A holds a text, encrypts it under a key seed and *)
(* hands the payload over; B opens it under a key seed of its choice and   *)
(* logs what decryptMessage returns.                                       *)

Plaintexts == {"", "hi", DecryptFailed, LoneSurrogate}

CryptoInput(text) ==
    /\ wire = {}
    /\ text # ui["A"].inputText
    /\ Commit([Cur EXCEPT !.ui["A"].inputText = text])

CryptoSend(k) ==
    /\ wire = {}
    /\ Commit([Cur EXCEPT !.wire = {[client |-> 0, topic |-> Topic(""),
                                     frame |-> Frame("CHAT", "A",
                                         encryptMessage(ui["A"].inputText, k))]}])

CryptoReceive(k2) ==
    /\ LogRoom("B", 1)
    /\ \E w \in wire :
          Commit(addMessage(Cur, "B", w.frame.sender,
                            decryptMessage(w.frame.payload, k2), FALSE))

NextCrypto ==
    \/ \E text \in Plaintexts : CryptoInput(text)
    \/ \E k \in KeySeeds : CryptoSend(k)
    \/ \E k2 \in KeySeeds : CryptoReceive(k2)

SpecCrypto == Init /\ [][NextCrypto]_vars

(* what decryptMessage returns for the payloads that open under k2 *)
Decryptable(k2) ==
    {decryptMessage(encryptMessage(text, k2), k2) : text \in Plaintexts}

Received == ui'["B"].messages[Len(ui'["B"].messages)].content

(* C20: what B gets from a payload under the key that made it is the text  *)
(* A encrypted; what it gets under another key is a failure outcome, which *)
(* is none of the values a payload that opens under that key can yield.    *)
C20_RoundTripTypedFailure ==
    [][\A k2 \in KeySeeds : \A w \in wire :
          CryptoReceive(k2)
          => /\ w.frame.payload.k = k2 => Received = ui["A"].inputText
             /\ w.frame.payload.k # k2 => Received \notin Decryptable(k2)]_vars

(* the round trip alone, on texts that are well-formed UTF-16 *)
RoundTripWellFormed ==
    [][\A k2 \in KeySeeds : \A w \in wire :
          CryptoReceive(k2) /\ w.frame.payload.k = k2
          /\ ui["A"].inputText # LoneSurrogate
          => Received = ui["A"].inputText]_vars

(* B has logged what a payload under another key gave it *)
C20_Witness ==
    /\ ui["A"].inputText = "hi"
    /\ \E i \in DOMAIN ui["B"].messages : ui["B"].messages[i].content = DecryptFailed
    /\ \E i \in DOMAIN ui["B"].messages : ui["B"].messages[i].content = "hi"

---------------------------------------------------------------------------
(* Read receipts.  The types declare them (Message.status, the frame type  *)
(* READ_RECEIPT and its messageId); the handler that keeps them is not     *)
(* part of the sources at hand and is written here from the specification: *)
(* a sent entry is created with status "sent" and its CHAT frame carries   *)
(* the id of the entry; an inbound CHAT frame read in the foreground is    *)
(* answered with a READ_RECEIPT that names its id; an inbound READ_RECEIPT *)
(* flips the entry it names to "read", and an unknown id changes nothing.  *)

StatusMessage(p, n, sender, content, isSystem, status) ==
    [id |-> <<p, n>>, sender |-> sender, content |-> content,
     isSystem |-> isSystem, status |-> status]

addStatusMessage(s, p, sender, content, isSystem, status) ==
    [s EXCEPT !.ui[p].messages =
        Append(@, StatusMessage(p, Len(@) + 1, sender, content, isSystem, status))]

(* READ_RECEIPT handling that marks every sent entry as read. *)
onReadReceipt_All(log, messageId) ==
    [i \in DOMAIN log |->
        IF log[i].status = "sent" THEN [log[i] EXCEPT !.status = "read"] ELSE log[i]]

(* READ_RECEIPT handling that takes an id it does not know for the id of   *)
(* the newest sent entry.                                                  *)
onReadReceipt_Unknown(log, messageId) ==
    IF \E i \in DOMAIN log : log[i].id = messageId
    THEN [i \in DOMAIN log |->
             IF log[i].id = messageId /\ log[i].status = "sent"
             THEN [log[i] EXCEPT !.status = "read"]
             ELSE log[i]]
    ELSE [i \in DOMAIN log |->
             IF log[i].status = "sent" /\ \A j \in DOMAIN log : j > i => log[j].status # "sent"
             THEN [log[i] EXCEPT !.status = "read"]
             ELSE log[i]]

onReadReceipt(log, messageId) ==
    [i \in DOMAIN log |->
        IF log[i].id = messageId /\ log[i].status = "sent"
        THEN [log[i] EXCEPT !.status = "read"]
        ELSE log[i]]

HistoryRoom(p) == Len(ui[p].messages) < MaxHistory

MessageIds(p) == {<<p, n>> : n \in 1..(MaxHistory + 1)}

(* The wire frame with its message-id reference. *)
StatusFrame(type, sender, payload, messageId) ==
    [type |-> type, sender |-> sender, payload |-> payload, messageId |-> messageId]

Handed(s, frame) ==
    [s EXCEPT !.wire = @ \cup {[client |-> 0, topic |-> Topic("R1K1"), frame |-> frame]}]

(* sendChatMessage that tags the frame with an id of its own making, not  *)
(* the id of the entry.                                                    *)
sendChatMessage_OtherId(s, p, text) ==
    IF trim(text) = "" THEN s
    ELSE LET messageId == <<p, Len(s.ui[p].messages)>>
         IN Handed(addStatusMessage(s, p, "Al", text, FALSE, "sent"),
                   StatusFrame("CHAT", "Al", encryptMessage(text, "K1"), messageId))

sendChatMessage(s, p, text) ==
    IF trim(text) = "" THEN s
    ELSE LET messageId == <<p, Len(s.ui[p].messages) + 1>>
         IN Handed(addStatusMessage(s, p, "Al", text, FALSE, "sent"),
                   StatusFrame("CHAT", "Al", encryptMessage(text, "K1"), messageId))

LocalEcho(p) ==
    /\ HistoryRoom(p)
    /\ \E text \in Texts :
          /\ trim(text) # ""
          /\ Commit(sendChatMessage(Cur, p, text))

(* CHAT frames of the peer, under the key of the session and under another *)
InboundFrames ==
    {StatusFrame("CHAT", "Bo", encryptMessage("hi", k), <<"B", n>>) :
        k \in KeySeeds, n \in 1..2}

(* handling of an inbound CHAT frame that never echoes a receipt. *)
onInboundChat_NoReceipt(s, p, f, visible) ==
    [s EXCEPT !.ui[p].messages =
        Append(@, [id |-> f.messageId, sender |-> f.sender,
                   content |-> decryptMessage(f.payload, "K1"),
                   isSystem |-> FALSE, status |-> Null])]

(* visible: the document is the foreground context when the frame arrives *)
onInboundChat(s, p, f, visible) ==
    LET s1 == [s EXCEPT !.ui[p].messages =
                  Append(@, [id |-> f.messageId, sender |-> f.sender,
                             content |-> decryptMessage(f.payload, "K1"),
                             isSystem |-> FALSE, status |-> Null])]
    IN IF visible
       THEN Handed(s1, StatusFrame("READ_RECEIPT", "Al", NoPayload, f.messageId))
       ELSE s1

InboundChat(p, f, visible) ==
    /\ HistoryRoom(p)
    /\ Commit(onInboundChat(Cur, p, f, visible))

InboundSystem(p) ==
    /\ HistoryRoom(p)
    /\ Commit(addStatusMessage(Cur, p, "SYSTEM", "Bo entered the secure channel.",
                               TRUE, Null))

ReadReceipt(p, messageId) ==
    Commit([Cur EXCEPT !.ui[p].messages = onReadReceipt(@, messageId)])

NextReceipt ==
    \/ LocalEcho("A")
    \/ \E f \in InboundFrames, visible \in BOOLEAN : InboundChat("A", f, visible)
    \/ InboundSystem("A")
    \/ \E messageId \in MessageIds("A") : ReadReceipt("A", messageId)

SpecReceipt == Init /\ [][NextReceipt]_vars

Known(p, messageId) ==
    \E i \in DOMAIN ui[p].messages : ui[p].messages[i].id = messageId

---------------------------------------------------------------------------
(* One peer on the setup screen: login, the host and join tabs, the code   *)
(* input, the join button and the way back, with attempts that are         *)
(* answered before their timeouts.                                         *)

SetupTimers ==
    \E t \in timers :
        \/ HostInit(t) /\ ~Threw(clients')
        \/ LoginJoin(t) /\ ~Threw(clients')
        \/ Announce(t)

NextSetup ==
    \/ Session("A") /\ ~Threw(clients')
    \/ SetupTimers
    \/ Network

SpecSetup == Init /\ [][NextSetup]_vars

(* the code the join button works on: the code of the invite link if there *)
(* is one, otherwise the typed one                                         *)
CodeToUse(p) ==
    IF ui[p].pendingJoinCode # Null /\ ui[p].pendingJoinCode # ""
    THEN ui[p].pendingJoinCode
    ELSE ui[p].joinCodeInput

(* C23: a join with a code that the parser rejects sets the error message  *)
(* and does nothing else: no client is created or ended, no timer is       *)
(* armed, nothing is published, and the session code, the key, the role,   *)
(* the status and the broker index stay as they were.                      *)
C23_RejectedJoinStartsNothing ==
    [][\A p \in Peers :
          /\ JoinClick(p)
          /\ CodeToUse(p) # ""
          /\ ~Parsed(parseSessionCode(CodeToUse(p)))
          => /\ ui' = [ui EXCEPT ![p].errorMsg = "Invalid Code Format."]
             /\ ref' = ref
             /\ clients' = clients
             /\ timers' = timers
             /\ wire' = {}]_vars

(* a guest with a live client for its session has asked to join with a     *)
(* code that is no code: the error shows and the session is as it was      *)
C23_Witness ==
    /\ ui["A"].errorMsg = "Invalid Code Format."
    /\ ui["A"].joinCodeInput = "bad"
    /\ ui["A"].sessionCode = "R1K1" /\ ui["A"].roomKey = "K1"
    /\ ~ui["A"].isHost
    /\ LiveClients("A") # {}

(* the state a step ends in, as a handler finds it *)
Nxt == [ui |-> ui', ref |-> ref', clients |-> clients', timers |-> timers',
        wire |-> {}]

HostInits(ts, p) == {t \in ts : t.kind = "hostInit" /\ t.owner = p}

(* C28: switchMode called again right after switchMode, with the same tab, *)
(* leaves the state as the first call left it: the component's state, the  *)
(* refs, the clients and the pending timers.                               *)
C28_SwitchModeIdempotent ==
    [][\A p \in Peers : \A host \in BOOLEAN :
          SwitchMode(p, host)
          => LET again == switchMode(Nxt, p, host)
             IN /\ again.ui = ui'
                /\ again.ref = ref'
                /\ Collected(again) = clients'
                /\ again.timers = timers'
                /\ again.wire = {}]_vars

(* what does hold: the second call changes neither the component's state   *)
(* nor the refs nor the clients, ends nothing and publishes nothing; on    *)
(* the join tab it changes no timer, on the host tab it arms one more      *)
(* start of a host session.                                                *)
SwitchModeAgain ==
    [][\A p \in Peers : \A host \in BOOLEAN :
          SwitchMode(p, host)
          => LET again == switchMode(Nxt, p, host)
             IN /\ again.ui = ui'
                /\ again.ref = ref'
                /\ Collected(again) = clients'
                /\ again.wire = {}
                /\ ui'[p].status = "Offline" /\ ui'[p].sessionCode = ""
                /\ ref'[p].clientRef = 0
                /\ ~host => again.timers = timers'
                /\ host => Cardinality(HostInits(again.timers, p)) =
                               Cardinality(HostInits(timers', p)) + 1]_vars

(* the host tab was chosen twice: no client, status Offline, no code, and  *)
(* two starts of a host session pending                                    *)
C28_Witness ==
    /\ ref["A"].clientRef = 0
    /\ ui["A"].status = "Offline" /\ ui["A"].sessionCode = ""
    /\ Cardinality(HostInits(timers, "A")) = 2

(* C30: a live client serves the session the component shows: its topic   *)
(* is the topic of the stored session code and it was created for the      *)
(* current role.                                                           *)
C30_RoomIdentityStable ==
    \A p \in Peers : \A c \in LiveClients(p) :
        /\ Topic(clients[c].ctx.code) = Topic(ui[p].sessionCode)
        /\ clients[c].ctx.isHosting = ui[p].isHost

C30_Witness ==
    \E c \in LiveClients("A") :
        /\ clients[c].state = "connected"
        /\ clients[c].ctx.code = "R1K1"
        /\ ui["A"].sessionCode = "R1K1"
        /\ clients[c].ctx.isHosting = ui["A"].isHost

---------------------------------------------------------------------------
(* Frames the handler has no branch for *)

(* what another client of the relay may publish besides TalkFrames: bytes  *)
(* JSON.parse rejects, and the types of NetworkMessage the handler does    *)
(* not know, from another sender and from one that carries the user's name *)
OddFrames ==
    {Frame("GARBAGE", Null, NoPayload),
     Frame("JOIN", "Bo", encryptMessage("hi", "K1")),
     Frame("LEAVE", "Al", NoPayload),
     Frame("READ_RECEIPT", "Bo", NoPayload)}

ForeignOdd ==
    \E c \in DOMAIN clients, f \in OddFrames : EnvPublish(c, f)

NextOdd == NextTalk \/ ForeignOdd

SpecOdd == Init /\ [][NextOdd]_vars

Recognized(f) == f.type \in {"CHAT", "SYSTEM", "TYPING"}

(* C27: the delivery of a frame that does not parse or whose type the      *)
(* handler does not know changes nothing but the queue it is taken from:   *)
(* log, typing flag, screen, session state, error message, refs, timers    *)
(* and the client stay as they are and nothing is published.               *)
C27_UnknownFrameIgnored ==
    [][\A c \in Attempts :
          Deliver(c) /\ ~Recognized(HeadFrame(c))
          => /\ ui' = ui /\ ref' = ref /\ timers' = timers /\ wire' = {}
             /\ clients' = [clients EXCEPT ![c].inbox = Tail(@)]]_vars

(* a frame of an unknown type waits at a connected peer that is in the     *)
(* chat with a non-empty log                                               *)
C27_Witness ==
    \E c \in LiveClients("A") :
        /\ clients[c].state = "connected"
        /\ clients[c].inbox # <<>>
        /\ HeadFrame(c).type \in {"JOIN", "LEAVE", "READ_RECEIPT"}
        /\ ui["A"].screen = CHAT
        /\ ui["A"].messages # <<>>

C27_WitnessUnparseable ==
    \E c \in LiveClients("A") :
        /\ clients[c].state = "connected"
        /\ clients[c].inbox # <<>>
        /\ HeadFrame(c).type = "GARBAGE"
        /\ ui["A"].isRemoteTyping

---------------------------------------------------------------------------
(* What the relay sees *)

Encrypted(payload) == payload # NoPayload /\ payload.k \in KeySeeds

(* C25: every frame handed to the transport is a CHAT or SYSTEM frame      *)
(* whose content lies in a payload encrypted under a session key, or a     *)
(* TYPING frame without any payload.                                       *)
C25_NoPlaintextOnWire ==
    \A w \in wire :
        /\ w.frame.type \in {"CHAT", "SYSTEM", "TYPING"}
        /\ w.frame.type \in {"CHAT", "SYSTEM"} => Encrypted(w.frame.payload)
        /\ w.frame.type = "TYPING" => w.frame.payload = NoPayload

(* the chat text of peer A is on the wire in a payload under the key seed  *)
(* of its session                                                          *)
C25_Witness ==
    \E w \in wire :
        /\ w.frame.type = "CHAT"
        /\ w.frame.payload = encryptMessage("hi", "K1")
        /\ w.client = ref["A"].clientRef
        /\ ui["A"].roomKey = "K1"

(* text.includes(seg), for the texts the transport is handed: a topic, a   *)
(* room id or a name, with the segment at its end                          *)
Prefixes ==
    {"", "rc95/s/"} \cup {CodeTable[c].peerId : c \in Codes}
                    \cup {"rc95/s/" \o CodeTable[c].peerId : c \in Codes}

Exposes(text, seg) == \E pre \in Prefixes : text = pre \o seg

(* C26: nothing the relay is handed holds a key seed: not the topic a      *)
(* client subscribes to, not the topic or the sender of a published frame. *)
C26_KeyNeverTransmitted ==
    \A k \in KeySeeds :
        /\ \A c \in Attempts :
              Live(clients[c]) => ~Exposes(Topic(clients[c].ctx.code), k)
        /\ \A w \in wire : ~Exposes(w.topic, k) /\ ~Exposes(w.frame.sender, k)

(* the fields of the frames themselves hold no key seed *)
FramesCarryNoKey ==
    \A k \in KeySeeds : \A w \in wire :
        ~Exposes(w.frame.sender, k) /\ w.frame.type # k

(* a connected client whose topic ends in the key seed of its session *)
C26_Witness ==
    \E c \in LiveClients("A") :
        /\ clients[c].state = "connected" /\ clients[c].subscribed
        /\ clients[c].ctx.key \in KeySeeds
        /\ Exposes(ref["A"].topicRef, clients[c].ctx.key)

---------------------------------------------------------------------------
(* Frames coming back from the relay *)

(* the frame at the head of client c's queue was published by c itself *)
OwnFrame(c) == Head(clients[c].inbox).from = c

(* C29: a CHAT or TYPING frame is dropped exactly when the client that     *)
(* receives it is the client that published it: its own CHAT adds nothing  *)
(* to the log and its own TYPING leaves the typing flag alone, while a     *)
(* CHAT of any other client adds one entry and a TYPING of any other       *)
(* client sets the flag.                                                   *)
C29_SelfEchoExact ==
    [][\A c \in Attempts :
          Deliver(c) =>
             LET p == clients[c].owner
             IN /\ HeadFrame(c).type = "CHAT"
                   => IF OwnFrame(c)
                      THEN ui'[p].messages = ui[p].messages
                      ELSE Len(ui'[p].messages) = Len(ui[p].messages) + 1
                /\ HeadFrame(c).type = "TYPING"
                   => IF OwnFrame(c)
                      THEN ui'[p].isRemoteTyping = ui[p].isRemoteTyping
                      ELSE ui'[p].isRemoteTyping]_vars

(* the filter as the handler computes it agrees with the origin of the     *)
(* frame whenever the name the handler captured is the name the peer sends *)
(* under and the two peers have different names                            *)
SelfEchoExactForDistinctNames ==
    \A c \in Attempts :
        /\ clients[c].state = "connected" /\ clients[c].inbox # <<>>
        /\ HeadFrame(c).type \in {"CHAT", "TYPING"}
        /\ clients[c].ctx.username = ui[clients[c].owner].username
        /\ ui["A"].username # ui["B"].username
        => (HeadFrame(c).sender = clients[c].ctx.username <=> OwnFrame(c))

(* the guest's own CHAT frame has come back to the client that sent it,    *)
(* and the guest had typed its name before it logged in                    *)
C29_Witness ==
    \E c \in LiveClients("B") :
        /\ clients[c].state = "connected" /\ clients[c].inbox # <<>>
        /\ OwnFrame(c)
        /\ HeadFrame(c).type = "CHAT"
        /\ HeadFrame(c).sender = "Bo"
        /\ clients[c].ctx.username = "Bo"

---------------------------------------------------------------------------
(* The signaling-server variant (PeerJS): one Peer object per component,   *)
(* data connections to it.  Here clients holds the DataConnections made    *)
(* for a peer object: the remote peer, whether the connection is open or   *)
(* closed, and whether setupConnectionListeners has put its handlers on    *)
(* it.  peerRef and connRef are the refs of the component.                 *)

Remotes == {"Bo", "Cy"}

DataConnection(p, remote) ==
    [owner |-> p, peer |-> remote, open |-> FALSE, closed |-> FALSE,
     listeners |-> FALSE]

(* the host after initHostSession, its peer object open on the server *)
InitPeer ==
    /\ ui = [p \in Peers |->
                IF p = "A" THEN [InitUi EXCEPT !.screen = SETUP, !.username = "Al",
                                               !.sessionCode = "R1K1", !.roomKey = "K1",
                                               !.status = "Waiting for Peer..."]
                           ELSE InitUi]
    /\ ref = [p \in Peers |-> [peerRef |-> IF p = "A" THEN 1 ELSE 0, connRef |-> 0]]
    /\ clients = <<>>
    /\ timers = {}
    /\ wire = {}

CommitPeer(s) ==
    /\ ui' = s.ui
    /\ ref' = s.ref
    /\ clients' = s.clients
    /\ timers' = s.timers
    /\ wire' = s.wire

setupConnectionListeners(s, p, c) ==
    [s EXCEPT !.ref[p].connRef = c, !.clients[c].listeners = TRUE]

(* peer.on('connection') for the new connection c *)
onConnection(s, p, c) ==
    IF s.ref[p].connRef # 0 /\ s.clients[s.ref[p].connRef].open
    THEN [s EXCEPT !.clients[c].closed = TRUE]
    ELSE setupConnectionListeners(s, p, c)

(* conn.on('open') *)
onConnOpen(s, c) ==
    LET p == s.clients[c].owner
    IN [s EXCEPT !.ui[p].status = "Connected", !.ui[p].screen = CHAT,
                 !.ui[p].errorMsg = Null]

(* conn.on('data'); decryptMessage does not raise *)
onConnData(s, c, f) ==
    LET p == s.clients[c].owner
    IN IF f.type = "CHAT" /\ f.payload # NoPayload /\ f.sender \notin {Null, ""}
       THEN addMessage(s, p, f.sender, decryptMessage(f.payload, s.ui[p].roomKey), FALSE)
       ELSE s

(* conn.on('close') *)
onConnClose(s, c) ==
    LET p == s.clients[c].owner
    IN addSystemMessage([s EXCEPT !.ui[p].status = "Disconnected",
                                  !.ref[p].connRef = 0], p, "Peer disconnected.")

(* the server announces a connection of a remote peer *)
PeerConnection(p, remote) ==
    /\ ref[p].peerRef # 0
    /\ Len(clients) < MaxConns
    /\ LET c  == Len(clients) + 1
           s1 == [Cur EXCEPT !.clients = Append(@, DataConnection(p, remote))]
       IN CommitPeer(onConnection(s1, p, c))

(* the data channel of connection c opens *)
ConnOpen(c) ==
    /\ ~clients[c].open /\ ~clients[c].closed
    /\ LET s1 == [Cur EXCEPT !.clients[c].open = TRUE]
       IN CommitPeer(IF clients[c].listeners THEN onConnOpen(s1, c) ELSE s1)

(* the remote peer of connection c sends a chat frame under its name *)
ConnData(c) ==
    /\ clients[c].open /\ clients[c].listeners
    /\ LogRoom(clients[c].owner, 1)
    /\ CommitPeer(onConnData(Cur, c, Frame("CHAT", clients[c].peer,
                                           encryptMessage("hi", "K1"))))

(* the remote peer closes connection c, or its channel fails *)
ConnClose(c) ==
    /\ ~clients[c].closed
    /\ clients[c].listeners => LogRoom(clients[c].owner, 1)
    /\ LET s1 == [Cur EXCEPT !.clients[c].open = FALSE, !.clients[c].closed = TRUE]
       IN CommitPeer(IF clients[c].listeners THEN onConnClose(s1, c) ELSE s1)

NextPeer ==
    \/ \E remote \in Remotes : PeerConnection("A", remote)
    \/ \E c \in DOMAIN clients : ConnOpen(c)
    \/ \E c \in DOMAIN clients : ConnData(c)
    \/ \E c \in DOMAIN clients : ConnClose(c)

SpecPeer == InitPeer /\ [][NextPeer]_vars

(* the connections of p that have the handlers of the component on them *)
Accepted(p) ==
    {c \in DOMAIN clients :
        clients[c].owner = p /\ clients[c].listeners /\ ~clients[c].closed}

Active(p) == {c \in Accepted(p) : clients[c].open}

(* C24: a peer has at most one open connection that delivers into its log, *)
(* and a connection that arrives while another one has been accepted is    *)
(* closed, gets no handlers and does not become the current connection.    *)
C24_SingleConnection ==
    /\ [](\A p \in Peers : Cardinality(Active(p)) <= 1)
    /\ [][\A p \in Peers, remote \in Remotes :
             PeerConnection(p, remote) /\ Accepted(p) # {}
             => /\ clients'[Len(clients')].closed
                /\ ~clients'[Len(clients')].listeners
                /\ ref' = ref]_vars

(* a connection that arrives while the current one is open is closed and   *)
(* changes nothing else                                                    *)
BusyRejected ==
    [][\A p \in Peers, remote \in Remotes :
          /\ PeerConnection(p, remote)
          /\ ref[p].connRef # 0 /\ clients[ref[p].connRef].open
          => /\ clients' = Append(clients, [DataConnection(p, remote) EXCEPT !.closed = TRUE])
             /\ ui' = ui /\ ref' = ref]_vars

(* one connection is open and current, a later one was turned away *)
C24_Witness ==
    \E c, d \in DOMAIN clients :
        /\ c < d
        /\ Active("A") = {c} /\ ref["A"].connRef = c
        /\ clients[d].closed /\ ~clients[d].listeners
        /\ ui["A"].screen = CHAT

---------------------------------------------------------------------------
(* Connection codes (utils/crypto.ts).  In this part a text is the         *)
(* sequence of its character codes.                                        *)

SEPARATOR == 36                                   \* '$'
PAD       == 61                                   \* '='
QUESTION  == 63                                   \* '?'
AMPERSAND == 38                                   \* '&'
PLUS      == 43                                   \* '+'
SPACE     == 32
HASH      == 35                                   \* '#'
WHITESPACE == {9, 10, 12, 13, 32}
JOIN_QUERY == <<63, 106, 111, 105, 110, 61>>      \* "?join="
JOIN_NAME  == <<106, 111, 105, 110>>              \* "join"
HTTP       == <<104, 116, 116, 112>>              \* "http"
HTTP_SCHEME == <<104, 116, 116, 112, 58, 47, 47>> \* "http://"
ORIGIN     == <<104, 116, 116, 112, 58, 47, 47, 104, 47>>   \* "http://h/"
OTHER_PARAM == <<63, 120, 38, 106, 111, 105, 110, 61>>      \* "?x&join="

(* the base64 alphabet: A-Z, a-z, 0-9, '+', '/' *)
B64Char(i) ==
    IF i < 26 THEN 65 + i
    ELSE IF i < 52 THEN 97 + (i - 26)
    ELSE IF i < 62 THEN 48 + (i - 52)
    ELSE IF i = 62 THEN 43 ELSE 47

IsB64(ch) == \E i \in 0..63 : B64Char(i) = ch

B64Index(ch) == CHOOSE i \in 0..63 : B64Char(i) = ch

(* a text that could not be produced: btoa and atob raise instead *)
Raised == [ok |-> FALSE, text |-> <<>>]
Returned(text) == [ok |-> TRUE, text |-> text]

RECURSIVE Base64(_)
Base64(b) ==
    IF Len(b) = 0 THEN <<>>
    ELSE IF Len(b) = 1
    THEN <<B64Char(b[1] \div 4), B64Char((b[1] % 4) * 16), PAD, PAD>>
    ELSE IF Len(b) = 2
    THEN <<B64Char(b[1] \div 4), B64Char((b[1] % 4) * 16 + b[2] \div 16),
           B64Char((b[2] % 16) * 4), PAD>>
    ELSE <<B64Char(b[1] \div 4), B64Char((b[1] % 4) * 16 + b[2] \div 16),
           B64Char((b[2] % 16) * 4 + b[3] \div 64), B64Char(b[3] % 64)>>
         \o Base64(SubSeq(b, 4, Len(b)))

(* btoa raises on a character outside Latin-1 *)
btoa(raw) ==
    IF \E i \in DOMAIN raw : raw[i] > 255 THEN Raised ELSE Returned(Base64(raw))

RECURSIVE Bytes(_)
Bytes(s) ==
    IF Len(s) = 0 THEN <<>>
    ELSE IF Len(s) = 2
    THEN <<B64Index(s[1]) * 4 + B64Index(s[2]) \div 16>>
    ELSE IF Len(s) = 3
    THEN <<B64Index(s[1]) * 4 + B64Index(s[2]) \div 16,
           (B64Index(s[2]) % 16) * 16 + B64Index(s[3]) \div 4>>
    ELSE <<B64Index(s[1]) * 4 + B64Index(s[2]) \div 16,
           (B64Index(s[2]) % 16) * 16 + B64Index(s[3]) \div 4,
           (B64Index(s[3]) % 4) * 64 + B64Index(s[4])>>
         \o Bytes(SubSeq(s, 5, Len(s)))

NotWhitespace(ch) == ch \notin WHITESPACE

(* atob: the forgiving base64 decoding of the HTML standard *)
atob(code) ==
    LET s1 == SelectSeq(code, NotWhitespace)
        n  == Len(s1)
        s2 == IF n > 0 /\ n % 4 = 0
              THEN IF s1[n] = PAD /\ s1[n - 1] = PAD THEN SubSeq(s1, 1, n - 2)
                   ELSE IF s1[n] = PAD THEN SubSeq(s1, 1, n - 1)
                   ELSE s1
              ELSE s1
    IN IF Len(s2) % 4 = 1 \/ \E i \in DOMAIN s2 : ~IsB64(s2[i])
       THEN Raised
       ELSE Returned(Bytes(s2))

(* text.includes(sub) *)
Includes(text, sub) ==
    \E i \in 1..(Len(text) - Len(sub) + 1) : SubSeq(text, i, i + Len(sub) - 1) = sub

(* the index of the first ch in text, 0 when there is none *)
IndexOf(text, ch) ==
    IF \E i \in DOMAIN text : text[i] = ch
    THEN CHOOSE i \in DOMAIN text : text[i] = ch /\ \A j \in 1..(i - 1) : text[j] # ch
    ELSE 0

(* text.split(sep) *)
RECURSIVE split(_, _)
split(text, sep) ==
    IF IndexOf(text, sep) = 0 THEN <<text>>
    ELSE <<SubSeq(text, 1, IndexOf(text, sep) - 1)>>
         \o split(SubSeq(text, IndexOf(text, sep) + 1, Len(text)), sep)

PlusToSpace(text) == [i \in DOMAIN text |-> IF text[i] = PLUS THEN SPACE ELSE text[i]]

ParamName(pair) ==
    IF IndexOf(pair, PAD) = 0 THEN pair ELSE SubSeq(pair, 1, IndexOf(pair, PAD) - 1)

ParamValue(pair) ==
    IF IndexOf(pair, PAD) = 0 THEN <<>>
    ELSE SubSeq(pair, IndexOf(pair, PAD) + 1, Len(pair))

(* new URLSearchParams(query).get(name): the value of the first pair of    *)
(* that name, <<>> standing also for no such pair (the caller treats both  *)
(* alike).  The texts here hold no percent escape.                         *)
SearchParamsGet(query, name) ==
    LET pairs == split(query, AMPERSAND)
        hits  == {i \in DOMAIN pairs : pairs[i] # <<>> /\ PlusToSpace(ParamName(pairs[i])) = name}
    IN IF hits = {} THEN <<>>
       ELSE PlusToSpace(ParamValue(pairs[CHOOSE i \in hits : \A j \in hits : i <= j]))

(* new URL(code).searchParams for an http URL; anything else raises *)
URLSearch(code) ==
    IF Len(code) > Len(HTTP_SCHEME) /\ SubSeq(code, 1, Len(HTTP_SCHEME)) = HTTP_SCHEME
    THEN LET q    == IF IndexOf(code, QUESTION) = 0 THEN <<>>
                     ELSE SubSeq(code, IndexOf(code, QUESTION) + 1, Len(code))
         IN Returned(IF IndexOf(q, HASH) = 0 THEN q
                     ELSE SubSeq(q, 1, IndexOf(q, HASH) - 1))
    ELSE Raised

NoIdentity == [ok |-> FALSE, peerId |-> <<>>, key |-> <<>>]

(* encodeConnectionCode that puts the key first. *)
encodeConnectionCode_KeyFirst(peerId, key) ==
    LET code == btoa(key \o <<SEPARATOR>> \o peerId)
    IN IF code.ok THEN code.text ELSE <<>>

encodeConnectionCode(peerId, key) ==
    LET code == btoa(peerId \o <<SEPARATOR>> \o key)
    IN IF code.ok THEN code.text ELSE <<>>

decodeConnectionCode(code) ==
    LET fromQuery == SearchParamsGet(split(code, QUESTION)[2], JOIN_NAME)
        url       == URLSearch(code)
        fromUrl   == IF url.ok THEN SearchParamsGet(url.text, JOIN_NAME) ELSE <<>>
        cleanCode == IF Includes(code, JOIN_QUERY)
                     THEN IF fromQuery # <<>> THEN fromQuery ELSE code
                     ELSE IF Includes(code, HTTP)
                     THEN IF fromUrl # <<>> THEN fromUrl ELSE code
                     ELSE code
        raw       == atob(cleanCode)
        parts     == split(raw.text, SEPARATOR)
    IN IF ~raw.ok THEN NoIdentity
       ELSE IF Len(parts) = 2
       THEN [ok |-> TRUE, peerId |-> parts[1], key |-> parts[2]]
       ELSE NoIdentity

(* Words(chars, n): the texts of n characters over chars *)
Words(chars, n) == [1..n -> chars]

KeyChars == {65, 57}                  \* 'A', '9'
IdChars  == {97, 45}                  \* 'a', '-'

(* generateRandomKey(): KeyLen characters out of A-Z, a-z, 0-9 *)
generateRandomKey == Words(KeyChars, KeyLen)

(* room ids: letters, digits and '-', as the ids of the signaling server *)
RoomIds == UNION {Words(IdChars, n) : n \in 1..MaxIdLen}

(* what a user may type: base64 symbols and padding, in any order *)
TypedChars == {74, 65, 89, 83, 81, 61}           \* 'J', 'A', 'Y', 'S', 'Q', '='
TypedCodes == UNION {Words(TypedChars, n) : n \in 0..MaxTyped}

(* getShareLink(): the code as the join parameter of the page's address *)
getShareLink(code) == ORIGIN \o JOIN_QUERY \o code

(* the forms in which the host's code reaches the guest's input *)
Shared(code) ==
    {code, getShareLink(code), ORIGIN \o OTHER_PARAM \o code}

(* B is the host with a generated identity and its code; A is the guest *)
InitCodec ==
    /\ \E peerId \in RoomIds, key \in generateRandomKey :
          /\ ui = [p \in Peers |->
                      IF p = "B"
                      THEN [joinCodeInput |-> <<>>, roomKey |-> key, errorMsg |-> Null,
                            sessionCode |-> encodeConnectionCode(peerId, key),
                            status |-> "Waiting for Peer..."]
                      ELSE [joinCodeInput |-> <<>>, roomKey |-> <<>>, errorMsg |-> Null,
                            sessionCode |-> <<>>, status |-> "Offline"]]
          /\ ref = [p \in Peers |-> [peerId |-> IF p = "B" THEN peerId ELSE <<>>]]
    /\ clients = <<>>
    /\ timers = {}
    /\ wire = {}

Undecoded == ui["A"].status = "Offline" /\ ui["A"].errorMsg = Null

(* the guest types a code by hand into the empty field *)
CodecType(input) ==
    /\ Undecoded
    /\ ui["A"].joinCodeInput = <<>> /\ input # <<>>
    /\ ui' = [ui EXCEPT !["A"].joinCodeInput = input]
    /\ UNCHANGED <<ref, clients, timers, wire>>

(* the guest pastes what the host shared *)
CodecPaste(input) ==
    /\ Undecoded
    /\ input \in Shared(ui["B"].sessionCode)
    /\ ui["A"].joinCodeInput = <<>>
    /\ ui' = [ui EXCEPT !["A"].joinCodeInput = input]
    /\ UNCHANGED <<ref, clients, timers, wire>>

(* the guest's input is decoded *)
CodecDecode ==
    /\ Undecoded
    /\ LET parsed == decodeConnectionCode(ui["A"].joinCodeInput)
       IN IF parsed.ok
          THEN /\ ui' = [ui EXCEPT !["A"].roomKey = parsed.key,
                                   !["A"].status = "Connecting..."]
               /\ ref' = [ref EXCEPT !["A"].peerId = parsed.peerId]
          ELSE /\ ui' = [ui EXCEPT !["A"].errorMsg = "Invalid Code Format."]
               /\ ref' = ref
    /\ UNCHANGED <<clients, timers, wire>>

NextCodec ==
    \/ \E input \in TypedCodes : CodecType(input)
    \/ \E input \in Shared(ui["B"].sessionCode) : CodecPaste(input)
    \/ CodecDecode

SpecCodec == InitCodec /\ [][NextCodec]_vars

(* C21: decoding never yields a partial identity: whatever the input, the  *)
(* decoder yields no identity or one whose room id and key seed are both   *)
(* non-empty.                                                              *)
C21_NoPartialIdentity ==
    [][CodecDecode /\ ui'["A"].status = "Connecting..."
       => ref'["A"].peerId # <<>> /\ ui'["A"].roomKey # <<>>]_vars

(* inputs atob rejects, and inputs whose text has no separator or more     *)
(* than one, yield no identity                                             *)
MalformedRejected ==
    [][CodecDecode /\ ~Includes(ui["A"].joinCodeInput, HTTP)
       /\ (~atob(ui["A"].joinCodeInput).ok
           \/ Len(split(atob(ui["A"].joinCodeInput).text, SEPARATOR)) # 2)
       => ui' = [ui EXCEPT !["A"].errorMsg = "Invalid Code Format."] /\ ref' = ref]_vars

(* the encoding of the bare separator has been decoded into an identity *)
C21_Witness ==
    /\ ui["A"].joinCodeInput = Base64(<<SEPARATOR>>)
    /\ ui["A"].status = "Connecting..."

(* C22: decoding the code the host generated, bare or as the join          *)
(* parameter of a link, yields the host's room id and key seed.            *)
C22_RoundTrip ==
    [][CodecDecode /\ ui["A"].joinCodeInput \in Shared(ui["B"].sessionCode)
       => /\ ui'["A"].status = "Connecting..."
          /\ ref'["A"].peerId = ref["B"].peerId
          /\ ui'["A"].roomKey = ui["B"].roomKey]_vars

(* the guest holds the identity of the host after decoding its share link *)
C22_Witness ==
    /\ ui["A"].joinCodeInput = getShareLink(ui["B"].sessionCode)
    /\ ui["A"].status = "Connecting..."
    /\ ref["A"].peerId = ref["B"].peerId /\ ref["A"].peerId # <<>>
    /\ ui["A"].roomKey = ui["B"].roomKey /\ Len(ui["A"].roomKey) = KeyLen

---------------------------------------------------------------------------
(* Sending in the signaling-server variant *)

(* sendMessage of that variant, with the input holding text *)
peerSendMessage(s, p, text) ==
    IF trim(text) = "" THEN s
    ELSE LET s1 == addMessage(s, p, s.ui[p].username, text, FALSE)
             c  == s1.ref[p].connRef
         IN IF c # 0 /\ s1.clients[c].open
            THEN [s1 EXCEPT !.wire = @ \cup
                     {[client |-> c,
                       frame |-> Frame("CHAT", s1.ui[p].username,
                                       encryptMessage(text, s1.ui[p].roomKey))]}]
            ELSE addSystemMessage(s1, p, "Not connected.")

PeerSend(p, text) ==
    /\ ui[p].screen = CHAT
    /\ LogRoom(p, 2)
    /\ CommitPeer(peerSendMessage(Cur, p, text))

NextPeerChat ==
    \/ NextPeer
    \/ \E text \in Texts : PeerSend("A", text)

SpecPeerChat == InitPeer /\ [][NextPeerChat]_vars

NotConnectedLogged(p) ==
    /\ Len(ui'[p].messages) > Len(ui[p].messages)
    /\ ui'[p].messages[Len(ui'[p].messages)].content = "Not connected."

(* C37: while an accepted connection of a peer is open, connRef holds an   *)
(* open connection, and a send made then is handed to a connection and     *)
(* logs no "Not connected.".                                               *)
C37_ConnRefConsistent ==
    /\ [](\A p \in Peers :
            Active(p) # {} => ref[p].connRef # 0 /\ clients[ref[p].connRef].open)
    /\ [][\A p \in Peers, text \in Texts :
             PeerSend(p, text) /\ trim(text) # "" /\ Active(p) # {}
             => ~NotConnectedLogged(p) /\ wire' # {}]_vars

(* with a single connection accepted, connRef is that connection from its  *)
(* acceptance to its close                                                 *)
ConnRefOfSingleConnection ==
    \A p \in Peers : \A c \in Accepted(p) :
        Cardinality({d \in DOMAIN clients : clients[d].owner = p /\ clients[d].listeners}) = 1
        => ref[p].connRef = c

(* the open current connection carries a frame the peer has just sent *)
C37_Witness ==
    /\ Active("A") = {ref["A"].connRef}
    /\ \E w \in wire : w.client = ref["A"].connRef /\ w.frame.type = "CHAT"

---------------------------------------------------------------------------
(* The mesh variant (Trystero).  Here clients holds the rooms the          *)
(* component has joined: whether it has left the room, the remote peers    *)
(* in it, and the peerCount its listeners closed over.  A room that was    *)
(* left delivers no event.                                                 *)

Room(p, captured) ==
    [owner |-> p, left |-> FALSE, peers |-> {}, peerCount |-> captured]

(* the host on the setup screen after handleLogin and initHostSession *)
InitMesh ==
    /\ ui = [p \in Peers |->
                [screen |-> IF p = "A" THEN SETUP ELSE LOGIN,
                 username |-> IF p = "A" THEN "Al" ELSE "",
                 isHost |-> TRUE,
                 sessionCode |-> IF p = "A" THEN "R1K1" ELSE "",
                 roomKey |-> IF p = "A" THEN "K1" ELSE "",
                 joinCodeInput |-> "",
                 status |-> IF p = "A" THEN "Initializing P2P..." ELSE "Offline",
                 errorMsg |-> Null, messages |-> <<>>, peerCount |-> 0]]
    /\ ref = [p \in Peers |-> [roomRef |-> IF p = "A" THEN 1 ELSE 0]]
    /\ clients = <<Room("A", 0)>>
    /\ timers = {}
    /\ wire = {}

(* connectToP2PRoom called from a render in which peerCount was captured *)
connectToP2PRoom(s, p, captured) ==
    LET s1 == IF s.ref[p].roomRef # 0
              THEN [s EXCEPT !.clients[s.ref[p].roomRef].left = TRUE]
              ELSE s
    IN [s1 EXCEPT !.clients = Append(@, Room(p, captured)),
                  !.ref[p].roomRef = Len(s1.clients) + 1]

meshInitHostSession(s, p, captured) ==
    LET code   == CHOOSE c \in generateSessionCode(s.ui[p].sessionCode) : TRUE
        parsed == parseSessionCode(code)
    IN connectToP2PRoom([s EXCEPT !.ui[p].sessionCode = parsed.rawCode,
                                  !.ui[p].roomKey = parsed.key,
                                  !.ui[p].status = "Initializing P2P...",
                                  !.ui[p].errorMsg = Null], p, captured)

meshJoinSession(s, p, captured) ==
    LET codeToUse == s.ui[p].joinCodeInput
        parsed    == parseSessionCode(codeToUse)
    IN IF codeToUse = "" THEN s
       ELSE IF ~Parsed(parsed)
       THEN [s EXCEPT !.ui[p].errorMsg = "Invalid Code Format."]
       ELSE connectToP2PRoom([s EXCEPT !.ui[p].sessionCode = parsed.rawCode,
                                       !.ui[p].roomKey = parsed.key,
                                       !.ui[p].errorMsg = Null,
                                       !.ui[p].status = "Searching Peers..."], p, captured)

(* room.onPeerJoin *)
onPeerJoin(s, c) ==
    LET p == s.clients[c].owner
    IN addSystemMessage([s EXCEPT !.ui[p].peerCount = @ + 1,
                                  !.ui[p].status = "Connected",
                                  !.ui[p].screen = CHAT,
                                  !.ui[p].errorMsg = Null],
                        p, "Secure link established via Tracker.")

(* room.onPeerLeave: peerCount in the test is the captured one *)
onPeerLeave(s, c) ==
    LET p  == s.clients[c].owner
        s1 == [s EXCEPT !.ui[p].peerCount = IF @ > 0 THEN @ - 1 ELSE 0]
    IN IF s.clients[c].peerCount <= 1
       THEN addSystemMessage([s1 EXCEPT !.ui[p].status = "Searching..."],
                             p, "Peer disconnected. Searching...")
       ELSE s1

meshSwitchMode(s, p, host) ==
    LET s1 == IF s.ref[p].roomRef # 0
              THEN [s EXCEPT !.clients[s.ref[p].roomRef].left = TRUE,
                             !.ref[p].roomRef = 0]
              ELSE s
        s2 == [s1 EXCEPT !.ui[p].isHost = host, !.ui[p].sessionCode = "",
                         !.ui[p].joinCodeInput = "", !.ui[p].status = "Offline",
                         !.ui[p].errorMsg = Null, !.ui[p].peerCount = 0]
    IN IF host
       THEN [s2 EXCEPT !.timers = @ \cup
                {[kind |-> "hostInit", owner |-> p, peerCount |-> s.ui[p].peerCount,
                  id |-> CHOOSE i \in 1..MaxTimers : \A t \in s.timers : t.id # i]}]
       ELSE s2

NoteRoom(p) == Len(ui[p].messages) < MaxNotes

MeshSwitchMode(p, host) ==
    /\ ui[p].screen = SETUP
    /\ host => TimerRoom
    /\ CommitPeer(meshSwitchMode(Cur, p, host))

MeshSetJoinCodeInput(p, v) ==
    /\ ui[p].screen = SETUP /\ ~ui[p].isHost
    /\ v # ui[p].joinCodeInput
    /\ CommitPeer([Cur EXCEPT !.ui[p].joinCodeInput = v])

MeshJoinClick(p) ==
    /\ ui[p].screen = SETUP /\ ~ui[p].isHost
    /\ Len(clients) < MaxRooms
    /\ CommitPeer(meshJoinSession(Cur, p, ui[p].peerCount))

MeshHostInit(t) ==
    /\ t.kind = "hostInit"
    /\ Len(clients) < MaxRooms
    /\ CommitPeer(meshInitHostSession([Cur EXCEPT !.timers = @ \ {t}], t.owner, t.peerCount))

PeerJoin(c, remote) ==
    /\ ~clients[c].left /\ remote \notin clients[c].peers
    /\ NoteRoom(clients[c].owner)
    /\ CommitPeer(onPeerJoin([Cur EXCEPT !.clients[c].peers = @ \cup {remote}], c))

PeerLeave(c, remote) ==
    /\ ~clients[c].left /\ remote \in clients[c].peers
    /\ NoteRoom(clients[c].owner)
    /\ CommitPeer(onPeerLeave([Cur EXCEPT !.clients[c].peers = @ \ {remote}], c))

NextMesh ==
    \/ \E host \in BOOLEAN : MeshSwitchMode("A", host)
    \/ \E v \in JoinInputs : MeshSetJoinCodeInput("A", v)
    \/ MeshJoinClick("A")
    \/ \E t \in timers : MeshHostInit(t)
    \/ \E c \in DOMAIN clients, remote \in Remotes : PeerJoin(c, remote)
    \/ \E c \in DOMAIN clients, remote \in Remotes : PeerLeave(c, remote)

SpecMesh == InitMesh /\ [][NextMesh]_vars

(* the remote peers in the room the component is in *)
Joined(p) == IF ref[p].roomRef = 0 THEN {} ELSE clients[ref[p].roomRef].peers

(* C36: the peer count is the number of peers in the component's room, is  *)
(* never negative, and the status is Connected exactly when it is above 0. *)
C36_StatusTracksPeers ==
    \A p \in Peers :
        /\ ui[p].peerCount = Cardinality(Joined(p))
        /\ ui[p].peerCount >= 0
        /\ ui[p].status = "Connected" <=> ui[p].peerCount > 0

(* the count is a natural number, and it is the number of joined peers     *)
(* while the component is in the first room it joined                      *)
PeerCountOfFirstRoom ==
    \A p \in Peers :
        /\ ui[p].peerCount \in Nat
        /\ Len(clients) = 1 /\ ref[p].roomRef = 1
           => ui[p].peerCount = Cardinality(Joined(p))

(* two peers are in the room, the count is 2 and the status Connected *)
C36_Witness ==
    /\ Joined("A") = Remotes
    /\ ui["A"].peerCount = 2
    /\ ui["A"].status = "Connected"

---------------------------------------------------------------------------
(* The host's status *)

WAITING == "Waiting for Peer..."

(* the client clientRef holds is connected and subscribed to its topic *)
Listening(p) ==
    /\ ref[p].clientRef # 0
    /\ clients[ref[p].clientRef].state = "connected"
    /\ clients[ref[p].clientRef].subscribed

(* C35: while the status of a peer is "Waiting for Peer..." the client it  *)
(* holds is connected and subscribed to the session topic.                 *)
C35_WaitingMeansListening ==
    \A p \in Peers : ui[p].status = WAITING => Listening(p)

(* the status becomes "Waiting for Peer..." only by the 'connect' event    *)
(* of a client made for hosting                                            *)
WaitingSetOnConnect ==
    [][\A p \in Peers :
          ui'[p].status = WAITING /\ ui[p].status # WAITING
          => \E c \in Attempts :
                /\ NetConnect(c)
                /\ clients[c].owner = p /\ clients[c].ctx.isHosting]_vars

(* a host that waits with its client connected and subscribed *)
C35_Witness ==
    /\ ui["A"].status = WAITING /\ ui["A"].isHost
    /\ Listening("A")
    /\ ui["A"].screen = SETUP

---------------------------------------------------------------------------
(* A host on the setup screen and what other clients of the relay publish  *)
(* on its topic: announcements under its key and under another, without    *)
(* payload, the control string in a CHAT frame, typing signals.            *)

HostFrames ==
    {Frame("SYSTEM", "Bo", encryptMessage(USER_JOINED, "K1")),
     Frame("SYSTEM", "Bo", encryptMessage(USER_JOINED, "K2")),
     Frame("SYSTEM", "Bo", encryptMessage(HOST_ACK, "K1")),
     Frame("SYSTEM", "Bo", encryptMessage("hi", "K1")),
     Frame("SYSTEM", "Bo", NoPayload),
     Frame("CHAT", "Bo", encryptMessage(USER_JOINED, "K1")),
     Frame("CHAT", "Bo", NoPayload),
     Frame("TYPING", "Bo", NoPayload)}

ForeignHost ==
    \E c \in DOMAIN clients, f \in HostFrames : EnvPublish(c, f)

NextHost ==
    \/ TalkUser
    \/ TalkTimers
    \/ \E t \in timers : TypingReceiveExpiry(t)
    \/ Network
    \/ ForeignHost

SpecHost == Init /\ [][NextHost]_vars

(* the frame is an announcement that a peer joined, under key *)
JoinAnnouncement(f, key) ==
    /\ f.type = "SYSTEM" /\ f.payload # NoPayload
    /\ f.payload.k = key /\ f.payload.pt = USER_JOINED

AckPublished == \E w \in wire' : w.frame.type = "SYSTEM" /\ w.frame.payload.pt = HOST_ACK

(* C34: the delivery of a frame moves a host from the setup screen into    *)
(* the chat, or makes it publish a host acknowledgement, only when the     *)
(* frame is a SYSTEM frame that decrypts under the host's session key to   *)
(* the peer-joined control string; such a frame does both.                 *)
C34_HostEntersOnJoinOnly ==
    [][\A c \in Attempts :
          Deliver(c) /\ ui[clients[c].owner].isHost =>
             LET p == clients[c].owner
             IN /\ (ui'[p].screen # ui[p].screen \/ AckPublished)
                   => /\ JoinAnnouncement(HeadFrame(c), ui[p].roomKey)
                      /\ clients[c].ctx.key = ui[p].roomKey
                /\ JoinAnnouncement(HeadFrame(c), clients[c].ctx.key)
                   => ui'[p].screen = CHAT /\ AckPublished]_vars

(* the same with the key the client was made for in place of the key the   *)
(* component stores                                                        *)
HostEntersUnderClientKey ==
    [][\A c \in Attempts :
          Deliver(c) /\ ui[clients[c].owner].isHost =>
             LET p == clients[c].owner
             IN /\ (ui'[p].screen # ui[p].screen \/ AckPublished)
                   => JoinAnnouncement(HeadFrame(c), clients[c].ctx.key)
                /\ JoinAnnouncement(HeadFrame(c), clients[c].ctx.key)
                   => ui'[p].screen = CHAT /\ AckPublished]_vars

(* the host is in the chat and its acknowledgement is on the wire *)
C34_Witness ==
    /\ ui["A"].isHost /\ ui["A"].screen = CHAT
    /\ \E w \in wire :
          /\ w.client = ref["A"].clientRef
          /\ w.frame = Frame("SYSTEM", ui["A"].username, encryptMessage(HOST_ACK, "K1"))

(* an announcement under another key waits at a host on the setup screen *)
C34_WitnessWrongKey ==
    \E c \in LiveClients("A") :
        /\ ui["A"].isHost /\ ui["A"].screen = SETUP
        /\ clients[c].inbox # <<>>
        /\ HeadFrame(c) = Frame("SYSTEM", "Bo", encryptMessage(USER_JOINED, "K2"))

---------------------------------------------------------------------------
(* The timeout of an attempt whose client was replaced *)

(* clientRef holds a newer client than the one of timer t *)
Replaced(t) ==
    /\ t.kind = "conn"
    /\ ref[t.owner].clientRef # 0
    /\ ref[t.owner].clientRef # t.client

RetryTimers(T) == {u \in T : u.kind = "retry"}

(* C31: the 6 s timeout of an attempt acts on that attempt only: when it   *)
(* fires after its client was replaced, it does not advance the candidate  *)
(* index, schedules no retry (which would end and replace the newer        *)
(* client), and leaves the newer client as it is.                          *)
C31_TimeoutActsOnOwnAttempt ==
    [][\A t \in timers :
          Replaced(t) /\ ConnectionTimeout(t) =>
             LET p == t.owner
             IN /\ ref'[p].currentBrokerIndex = ref[p].currentBrokerIndex
                /\ RetryTimers(timers') \subseteq RetryTimers(timers)
                /\ ref'[p].clientRef = ref[p].clientRef
                /\ clients'[ref[p].clientRef].state
                      = clients[ref[p].clientRef].state]_vars

(* what the callback does itself: it ends no client but its own and leaves *)
(* clientRef alone                                                         *)
TimeoutEndsOwnClientOnly ==
    [][\A t \in timers :
          ConnectionTimeout(t) =>
             /\ ref'[t.owner].clientRef = ref[t.owner].clientRef
             /\ \A c \in Attempts \ {t.client} :
                   clients'[c].state = clients[c].state]_vars

(* a retry scheduled for a replaced attempt is pending while the newer     *)
(* client is connected on another candidate than the index points to       *)
C31_Witness ==
    \E c \in Attempts, u \in RetryTimers(timers) :
        LET p == clients[c].owner
            n == ref[p].clientRef
        IN /\ clients[c].state = "ending"
           /\ n # 0 /\ n # c /\ n > c
           /\ clients[n].state = "connected"
           /\ u.owner = p /\ u.ctx = clients[c].ctx
           /\ ~\E t \in timers : t.kind = "conn" /\ t.client = c
           /\ ref[p].currentBrokerIndex # clients[n].broker

---------------------------------------------------------------------------
(* Host and guest with failover: A logs in as host, B opens the invite     *)
(* link of A's session and logs in; an attempt may time out and the next   *)
(* candidate is dialled.                                                   *)

MeetUser == \E p \in Peers : Login(p) /\ ~Threw(clients')

MeetTimers ==
    \E t \in timers :
        \/ LoginJoin(t) /\ ~Threw(clients')
        \/ ConnectionTimeout(t)
        \/ Retry(t) /\ ~Threw(clients')
        \/ Announce(t)

NextMeet == MeetUser \/ MeetTimers \/ Network

SpecMeet == InitDuo /\ [][NextMeet]_vars

(* C32: a host and a guest of the same session code that are both          *)
(* connected and subscribed are on the same candidate of BROKER_LIST.      *)
C32_SameRelay ==
    \A h, g \in Attempts :
        Paired(h, g) => clients[h].broker = clients[g].broker

(* host and guest are paired after one of them went on to another          *)
(* candidate                                                               *)
C32_Witness ==
    \E h, g \in Attempts :
        /\ Paired(h, g)
        /\ \E p \in Peers : ref[p].currentBrokerIndex # 0

---------------------------------------------------------------------------
(* The handshake of a host and a guest on one relay.  Timers that are due  *)
(* fire, the relay answers a subscribe and hands over the frames it holds. *)

Fairness ==
    /\ WF_vars(MeetTimers)
    /\ WF_vars(\E c \in DOMAIN clients, err \in BOOLEAN : NetSubAck(c, err))
    /\ WF_vars(\E c \in DOMAIN clients : Deliver(c))

SpecMeetFair == SpecMeet /\ Fairness

Met(h, g) == Paired(h, g) /\ clients[h].broker = clients[g].broker

Logged(p, content) ==
    \E i \in 1..Len(ui[p].messages) : ui[p].messages[i].content = content

(* the host is in the chat and the guest has logged the acknowledgement *)
HandshakeDone(h, g) ==
    /\ ui[clients[h].owner].screen = CHAT
    /\ Logged(clients[g].owner, "Secure handshake complete.")

(* C33: a host and a guest that end up connected and subscribed to the     *)
(* topic of the same session code on the same relay, and stay so,          *)
(* eventually complete the handshake: the host enters the chat and the     *)
(* guest receives the host's acknowledgement.                              *)
C33_HandshakeCompletes ==
    \A h, g \in 1..MaxClients :
        <>[](h \in Attempts /\ g \in Attempts /\ Met(h, g))
           => <>(h \in Attempts /\ g \in Attempts /\ HandshakeDone(h, g))

(* an announcement the relay holds for the host is answered: once the      *)
(* guest's peer-joined frame is queued for a host that stays paired, the   *)
(* handshake completes                                                     *)
Announced(h, g) ==
    /\ clients[h].inbox # <<>>
    /\ Head(clients[h].inbox).from = g
    /\ Announces(HeadFrame(h), clients[h].ctx.key, USER_JOINED)

AnnouncementAnswered ==
    \A h, g \in 1..MaxClients :
        <>[](h \in Attempts /\ g \in Attempts /\ Met(h, g))
           => [](h \in Attempts /\ g \in Attempts /\ Met(h, g) /\ Announced(h, g)
                    => <>(h \in Attempts /\ g \in Attempts /\ HandshakeDone(h, g)))

(* host and guest are met, nothing is pending, and the host still waits:   *)
(* the guest announced itself before the host had subscribed               *)
C33_Witness ==
    \E h, g \in Attempts :
        /\ Met(h, g)
        /\ timers = {}
        /\ \A c \in Attempts : clients[c].inbox = <<>> /\ ~clients[c].subPending
        /\ ui[clients[h].owner].screen # CHAT
        /\ ui[clients[g].owner].screen = CHAT

=============================================================================
